---- MODULE Spec2Model ----
(***************************************************************************)
(* Model of the agntor SDK's trust-and-safety pipeline:                    *)
(*   redact          (src/src/redact.ts)                                   *)
(*   guard           (src/src/guard.ts)                                    *)
(*   settlementGuard (src/unnamed/part_001)                                *)
(*   guardTool / wrapAgentTool (src/src/tool-guard.ts)                     *)
(*   validateUrl     (src/src/utils/network.ts)                            *)
(*                                                                         *)
(* Strings are sequences of one-character strings; offsets are 0-based as  *)
(* in JavaScript (offset i is element i+1 of the sequence).  Risk scores   *)
(* are integers in hundredths (0.7 is 70).                                 *)
(***************************************************************************)
EXTENDS Integers, Sequences, FiniteSets, TLC

VARIABLES
    \* a caller of redact: its input and policy, where it stands, and the
    \* results of redact(input) and of redact(redact(input).redacted)
    rInput, rPolicy, rpc, rFirst, rSecond,
    \* guard: the policy object shared by successive calls, the lastIndex of
    \* each of its injectionPatterns, the number of calls begun, and the
    \* call in progress: its input and options, where it stands, the call's
    \* locals (violations, reasoning, providerError), the lastIndex values
    \* it started from, the classifier invocations it made, what the
    \* classifier call failed with, the onError calls, and its result
    gPolicy, gLastIndex, gCalls, gInput, gOptions, gpc, gViolations,
    gReasoning, gProviderError, gStartIndex, gClassified, gFailure, gErrors,
    gResult,
    \* settlementGuard: the call's arguments, where it stands, its locals
    \* (heuristicScore, riskFactors), the classifier invocations it made and
    \* the prompt it sent, the classifier's answer or failure, the onError
    \* calls, and its result
    sMeta, sOptions, spc, sScore, sFactors, sClassified, sPrompt, sAnswer,
    sFailure, sErrors, sResult,
    \* wrapAgentTool: the wrapped function and the options (fixed when the
    \* wrapper is made), the invocations so far, and of the invocation in
    \* progress: where it stands, its arguments, safeArgs, the layers entered,
    \* the argument whose URL is being looked up, the lookups made, the calls
    \* of the tool and their arguments, and the value or error it ends with
    wToolFn, wOptions, wCalls, wpc, wArgs, wSafeArgs, wTrace, wIndex, wLookups,
    wInvoked, wToolArgs, wOutcome,
    \* TicketIssuer: the clock (Unix seconds) and the times it was advanced,
    \* the configuration of the issuer that validates, the ticket in hand,
    \* and what validateTicketSync, validateTicket and validateTransaction
    \* last returned for it at the current time
    tNow, tTicks, tConfig, tTicket, tSync, tAsync, tTx,
    \* guardTool: the calls made so far and the last call's tool, arguments,
    \* policy and result
    qCalls, qTool, qArgs, qPolicy, qResult,
    \* validateUrl: the call's argument, where it stands, what the lookup of
    \* isPrivateIp ended with, and the call's outcome
    uUrl, upc, uResults, uOutcome,
    \* Agntor.request: the client's maxRetries, where the call stands, the
    \* loop's attempt, what each fetch ended with, lastError, and the outcome
    hMaxRetries, hpc, hAttempt, hFetches, hLastError, hOutcome,
    \* concurrent invocations of one wrapped tool: the wrapped function and
    \* the options, the lastIndex of each injectionPattern of the policy, and
    \* the locals of each invocation
    cToolFn, cOptions, cLastIndex, cInv

redactVars == <<rInput, rPolicy, rpc, rFirst, rSecond>>
guardVars == <<gPolicy, gLastIndex, gCalls, gInput, gOptions, gpc,
               gViolations, gReasoning, gProviderError, gStartIndex,
               gClassified, gFailure, gErrors, gResult>>
settleVars == <<sMeta, sOptions, spc, sScore, sFactors, sClassified, sPrompt,
                sAnswer, sFailure, sErrors, sResult>>
wrapVars == <<wToolFn, wOptions, wCalls, wpc, wArgs, wSafeArgs, wTrace, wIndex,
              wLookups, wInvoked, wToolArgs, wOutcome>>
ticketVars == <<tNow, tTicks, tConfig, tTicket, tSync, tAsync, tTx>>
toolVars == <<qCalls, qTool, qArgs, qPolicy, qResult>>
urlVars == <<uUrl, upc, uResults, uOutcome>>
requestVars == <<hMaxRetries, hpc, hAttempt, hFetches, hLastError, hOutcome>>
concVars == <<cToolFn, cOptions, cLastIndex, cInv>>
vars == <<redactVars, guardVars, settleVars, wrapVars, ticketVars, toolVars, urlVars, requestVars, concVars>>

\* the longest input of a redact call
MaxLen == 6
\* the longest free part of the input of a guard call
MaxBody == 2

\* An optional field that is absent is not in the record's domain.
Has(r, f) == f \in DOMAIN r

-----------------------------------------------------------------------------
(* Regular expressions.  A regex source is a sequence of atoms; an atom is   *)
(* a character class with a greedy quantifier {lo,hi} (hi = -1: unbounded)   *)
(* or a zero-width assertion (\b, ^, $).  Matching is the backtracking search of   *)
(* the JavaScript engine: longest repetition first.                          *)

Rep(cls, lo, hi) == [kind |-> "rep", cls |-> cls, lo |-> lo, hi |-> hi]
Chr(c) == Rep({c}, 1, 1)
Plus(cls) == Rep(cls, 1, -1)
WordB == [kind |-> "b", cls |-> {}, lo |-> 0, hi |-> 0]
\* ^ and $ (no m flag)
Bol == [kind |-> "bol", cls |-> {}, lo |-> 0, hi |-> 0]
Eol == [kind |-> "eol", cls |-> {}, lo |-> 0, hi |-> 0]

LowerLetters ==
    {"a", "c", "d", "e", "f", "h", "i", "l", "m", "n", "o", "p", "r", "s", "t", "x"}
UpperLetters ==
    {"A", "C", "D", "E", "F", "H", "I", "L", "M", "N", "O", "P", "R", "S", "T", "X"}
\* [a-zA-Z], as far as the model's strings go
Letters == LowerLetters \cup UpperLetters
Digits == {"0", "1", "2", "3", "4", "5", "6", "7", "8", "9"}
\* \w
WordChars == Letters \cup Digits \cup {"_"}

\* \b holds at offset i of s
IsBoundary(s, i) ==
    LET before == i >= 1 /\ i <= Len(s) /\ s[i] \in WordChars
        after == i < Len(s) /\ s[i + 1] \in WordChars
    IN before # after

RECURSIVE RunLen(_, _, _, _)
\* how many characters of cls follow offset i, counting at most hi of them
RunLen(s, i, cls, hi) ==
    IF hi = 0 \/ i >= Len(s) THEN 0
    ELSE IF s[i + 1] \notin cls THEN 0
    ELSE 1 + RunLen(s, i + 1, cls, hi - 1)

RECURSIVE MatchAtoms(_, _, _, _), TryCount(_, _, _, _, _)
\* the end offset of the match of atoms k.. at offset i, or -1
MatchAtoms(atoms, k, s, i) ==
    IF k > Len(atoms) THEN i
    ELSE IF atoms[k].kind = "b"
        THEN IF IsBoundary(s, i) THEN MatchAtoms(atoms, k + 1, s, i) ELSE -1
    ELSE IF atoms[k].kind = "bol"
        THEN IF i = 0 THEN MatchAtoms(atoms, k + 1, s, i) ELSE -1
    ELSE IF atoms[k].kind = "eol"
        THEN IF i = Len(s) THEN MatchAtoms(atoms, k + 1, s, i) ELSE -1
    ELSE TryCount(atoms, k, s, i, RunLen(s, i, atoms[k].cls, atoms[k].hi))
TryCount(atoms, k, s, i, n) ==
    IF n < atoms[k].lo THEN -1
    ELSE LET r == MatchAtoms(atoms, k + 1, s, i + n)
         IN IF r # -1 THEN r ELSE TryCount(atoms, k, s, i, n - 1)

RECURSIVE ExecStart(_, _, _)
\* RegExp exec from lastIndex: the offset of the leftmost match at or after
\* offset `from`, or -1
ExecStart(atoms, s, from) ==
    IF from > Len(s) THEN -1
    ELSE IF MatchAtoms(atoms, 1, s, from) # -1 THEN from
    ELSE ExecStart(atoms, s, from + 1)

HasMatch(atoms, s, from) == ExecStart(atoms, s, from) # -1

RECURSIVE MatchAllFrom(_, _, _)
\* String.prototype.matchAll with a global regex: successive exec calls, the
\* search position advanced by one past an empty match
MatchAllFrom(atoms, s, from) ==
    LET j == ExecStart(atoms, s, from)
        e == MatchAtoms(atoms, 1, s, j)
    IN IF j = -1 THEN <<>>
       ELSE <<[start |-> j, end |-> e]>>
                \o MatchAllFrom(atoms, s, IF e = j THEN j + 1 ELSE e)

\* s.slice(from, to)
Slice(s, from, to) == IF to <= from THEN <<>> ELSE SubSeq(s, from + 1, to)

-----------------------------------------------------------------------------
(* redact (src/src/redact.ts)                                                *)

TokEmail == <<"[", "E", "M", "A", "I", "L", "]">>
TokRedacted == <<"[", "R", "E", "D", "A", "C", "T", "E", "D", "]">>

\* a RegExp object: its source and its g flag
RegExpOf(atoms, global) == [atoms |-> atoms, global |-> global]

\* The built-in list, cut down to the entry whose matches fit the bounded
\* inputs: /[a-zA-Z0-9._%+-]+@[a-zA-Z0-9.-]+\.[a-zA-Z]{2,}/g.  The classes
\* list the characters that occur in the model's strings.
DEFAULT_REDACTION_PATTERNS ==
    << [type |-> "email",
        pattern |-> RegExpOf(<< Plus(Letters \cup Digits \cup {".", "_", "-"}),
                                Chr("@"),
                                Plus(Letters \cup Digits \cup {".", "-"}),
                                Chr("."),
                                Rep(Letters, 2, -1) >>, TRUE),
        replacement |-> TokEmail] >>

\* base.global ? base : new RegExp(base.source, base.flags + 'g')
GlobalRegex(base) == IF base.global THEN base ELSE RegExpOf(base.atoms, TRUE)

\* the candidates one pattern contributes, in matchAll's order
PatternMatches(input, p) ==
    LET regex == GlobalRegex(p.pattern)
        found == MatchAllFrom(regex.atoms, input, 0)
    IN [k \in 1..Len(found) |->
            [start |-> found[k].start,
             end |-> found[k].end,
             type |-> p.type,
             \* replacement ?? '[REDACTED]'
             replacement |-> IF Has(p, "replacement") THEN p.replacement
                             ELSE TokRedacted,
             value |-> Slice(input, found[k].start, found[k].end)]]

RECURSIVE CollectMatches(_, _, _)
\* allPatterns.forEach(...): the candidates of patterns k.. in order
CollectMatches(input, pats, k) ==
    IF k > Len(pats) THEN <<>>
    ELSE PatternMatches(input, pats[k]) \o CollectMatches(input, pats, k + 1)

\* (mutant) at the same start the shorter candidate comes first
CompareShortestFirst(a, b) ==
    IF a.start - b.start # 0 THEN a.start - b.start
    ELSE (a.end - a.start) - (b.end - b.start)

\* (mutant) orders by start alone
CompareByStart(a, b) == a.start - b.start

\* the sort's comparator: a.start - b.start || (b.end - b.start) - (a.end - a.start)
CompareMatches(a, b) ==
    IF a.start - b.start # 0 THEN a.start - b.start
    ELSE (b.end - b.start) - (a.end - a.start)

RECURSIVE InsertSorted(_, _)
\* m placed after every element that does not compare greater (a stable sort)
InsertSorted(sorted, m) ==
    IF sorted = <<>> THEN <<m>>
    ELSE IF CompareMatches(Head(sorted), m) <= 0
        THEN <<Head(sorted)>> \o InsertSorted(Tail(sorted), m)
    ELSE <<m>> \o sorted

RECURSIVE SortMatches(_)
\* matches.sort(...)
SortMatches(ms) ==
    IF ms = <<>> THEN <<>>
    ELSE InsertSorted(SortMatches(SubSeq(ms, 1, Len(ms) - 1)), ms[Len(ms)])

\* (mutant) skips a candidate only when it lies wholly before the cursor
SkippedIfInside(match, cursor) == match.end <= cursor

\* (mutant) also skips a candidate that starts exactly at the cursor
SkippedAtCursor(match, cursor) == match.start <= cursor

\* whether the walk skips a candidate: match.start < cursor
Skipped(match, cursor) == match.start < cursor

RECURSIVE Walk(_, _, _, _, _, _)
\* the loop over the sorted candidates and the final suffix copy
Walk(input, ms, k, cursor, output, findings) ==
    IF k > Len(ms)
        THEN [redacted |-> output \o Slice(input, cursor, Len(input)),
              findings |-> findings]
    ELSE IF Skipped(ms[k], cursor)
        THEN Walk(input, ms, k + 1, cursor, output, findings)
    ELSE Walk(input, ms, k + 1, ms[k].end,
              output \o Slice(input, cursor, ms[k].start) \o ms[k].replacement,
              Append(findings, [type |-> ms[k].type,
                                span |-> <<ms[k].start, ms[k].end>>,
                                value |-> ms[k].value]))

\* policy.redactionPatterns ?? []
CustomRedaction(policy) ==
    IF Has(policy, "redactionPatterns") THEN policy.redactionPatterns ELSE <<>>

AllRedactionPatterns(policy) ==
    DEFAULT_REDACTION_PATTERNS \o CustomRedaction(policy)

redact(input, policy) ==
    Walk(input,
         SortMatches(CollectMatches(input, AllRedactionPatterns(policy), 1)),
         1, 0, <<>>, <<>>)


-----------------------------------------------------------------------------
(* guard (src/src/guard.ts)                                                  *)

\* String.prototype.toLowerCase on the characters of the model
LowerChar(c) ==
    CASE c = "A" -> "a" [] c = "C" -> "c" [] c = "D" -> "d" [] c = "E" -> "e"
      [] c = "F" -> "f" [] c = "H" -> "h" [] c = "I" -> "i" [] c = "L" -> "l"
      [] c = "M" -> "m" [] c = "O" -> "o"
      [] c = "N" -> "n" [] c = "P" -> "p" [] c = "R" -> "r" [] c = "S" -> "s"
      [] c = "T" -> "t" [] c = "X" -> "x"
      [] OTHER -> c
LowerStr(s) == [k \in 1..Len(s) |-> LowerChar(s[k])]
LowerAtoms(atoms) ==
    [k \in 1..Len(atoms) |->
        [atoms[k] EXCEPT !.cls = {LowerChar(c) : c \in atoms[k].cls}]]

\* the end offset of the leftmost match of rx at or after `from`, or -1; the
\* i flag compares both sides in lower case
ExecEnd(rx, s, from) ==
    LET atoms == IF rx.ignoreCase THEN LowerAtoms(rx.atoms) ELSE rx.atoms
        text == IF rx.ignoreCase THEN LowerStr(s) ELSE s
        start == ExecStart(atoms, text, from)
    IN IF start = -1 THEN -1 ELSE MatchAtoms(atoms, 1, text, start)

\* RegExp.prototype.test: a global regex searches from its lastIndex and
\* leaves the end of the match (or 0 after a failure) in it; any other
\* regex searches from 0 and leaves lastIndex alone
RegExpTest(rx, s, lastIndex) ==
    LET end == ExecEnd(rx, s, IF rx.global THEN lastIndex ELSE 0)
    IN [found |-> end # -1,
        lastIndex |-> IF ~rx.global THEN lastIndex
                      ELSE IF end # -1 THEN end ELSE 0]

Space == {" "}

\* The built-in list, cut down to two entries whose matches occur in the
\* model's inputs: /\[INST\]/i and /\bDAN\s+mode\b/i.  None has the g flag.
DEFAULT_INJECTION_PATTERNS ==
    << [isRegExp |-> TRUE, ignoreCase |-> TRUE, global |-> FALSE,
        atoms |-> <<Chr("["), Chr("I"), Chr("N"), Chr("S"), Chr("T"), Chr("]")>>],
       [isRegExp |-> TRUE, ignoreCase |-> TRUE, global |-> FALSE,
        atoms |-> <<WordB, Chr("D"), Chr("A"), Chr("N"), Plus(Space),
                    Chr("m"), Chr("o"), Chr("d"), Chr("e"), WordB>>] >>

\* policy.injectionPatterns ?? []
CustomInjection(policy) ==
    IF Has(policy, "injectionPatterns") THEN policy.injectionPatterns ELSE <<>>

\* pattern instanceof RegExp ? pattern : new RegExp(pattern, 'i')
InjectionRegex(pattern) ==
    IF pattern.isRegExp THEN pattern
    ELSE [isRegExp |-> TRUE, ignoreCase |-> TRUE, global |-> FALSE,
          atoms |-> pattern.atoms]

RECURSIVE LexicalPass(_, _, _, _, _)
\* patterns.forEach(...) over the built-in patterns followed by the policy's:
\* one 'prompt-injection' pushed per matching pattern.  lastIndex[k] is the
\* lastIndex of the policy's k-th pattern; a string pattern is compiled
\* afresh on every call and keeps none.
LexicalPass(input, policy, k, lastIndex, violations) ==
    LET nDefault == Len(DEFAULT_INJECTION_PATTERNS)
        custom == CustomInjection(policy)
    IN IF k > nDefault + Len(custom)
       THEN [violations |-> violations, lastIndex |-> lastIndex]
       ELSE LET pattern == IF k <= nDefault THEN DEFAULT_INJECTION_PATTERNS[k]
                           ELSE custom[k - nDefault]
                rx == InjectionRegex(pattern)
                own == k > nDefault /\ pattern.isRegExp
                t == RegExpTest(rx, input, IF own THEN lastIndex[k - nDefault] ELSE 0)
            IN LexicalPass(input, policy, k + 1,
                   IF own THEN [lastIndex EXCEPT ![k - nDefault] = t.lastIndex]
                   ELSE lastIndex,
                   IF t.found THEN Append(violations, "prompt-injection")
                   ELSE violations)

\* the delimiter count above which the input is reported as obfuscated
BRACKET_LIMIT == 20

BracketChars == {"[", "]", "{", "}"}

\* (input.match(/\[|\]|\{|\}/g) || []).length
BracketCount(input) == Len(MatchAllFrom(<<Rep(BracketChars, 1, 1)>>, input, 0))

\* (mutant) reports an input with exactly BRACKET_LIMIT delimiters too
HeuristicPassInclusive(input, violations) ==
    IF BracketCount(input) >= BRACKET_LIMIT
    THEN Append(violations, "potential-obfuscation")
    ELSE violations

HeuristicPass(input, violations) ==
    IF BracketCount(input) > BRACKET_LIMIT
    THEN Append(violations, "potential-obfuscation")
    ELSE violations

\* (mutant) a provider alone starts the deep scan
DeepScanWithProvider(options) == Has(options, "provider")

\* options?.deepScan && options.provider
DeepScanRequested(options) ==
    /\ Has(options, "deepScan")
    /\ options.deepScan
    /\ Has(options, "provider")

\* GuardResponseSchema.parse: whether the answer has the fixed shape
SchemaAccepts(answer) ==
    /\ Has(answer, "classification")
    /\ answer.classification \in {"pass", "block"}
    /\ Has(answer, "reasoning")

\* err instanceof Error ? err : new Error(String(err))
AsError(err) ==
    IF err.isError THEN err ELSE [isError |-> TRUE, message |-> err.text]

\* what the classifier call ends with
ZodError == [isError |-> TRUE, message |-> "invalid_type"]

\* (mutant) a classifier failure is treated as a block
DeepScanCatchClosed(violations, err, options, errors) ==
    [violations |-> Append(violations, "llm-flagged-injection"),
     providerError |-> <<AsError(err).message>>,
     errors |-> IF Has(options, "onError") THEN Append(errors, AsError(err))
                ELSE errors]

\* the catch block of the deep scan: the violations are left as they are
DeepScanCatch(violations, err, options, errors) ==
    [violations |-> violations,
     providerError |-> <<AsError(err).message>>,
     errors |-> IF Has(options, "onError") THEN Append(errors, AsError(err))
                ELSE errors]

RECURSIVE Distinct(_)
\* [...new Set(xs)]: the first occurrence of each element, in order
Distinct(xs) ==
    IF xs = <<>> THEN <<>>
    ELSE LET front == Distinct(SubSeq(xs, 1, Len(xs) - 1))
             last == xs[Len(xs)]
         IN IF \E k \in 1..Len(front) : front[k] = last THEN front
            ELSE Append(front, last)

RECURSIVE CweCodes(_, _, _)
\* violations.map((v) => policy.cweMap?.[v]).filter(Boolean)
CweCodes(violations, policy, k) ==
    IF k > Len(violations) THEN <<>>
    ELSE (IF Has(policy, "cweMap") /\ Has(policy.cweMap, violations[k])
          THEN <<policy.cweMap[violations[k]]>> ELSE <<>>)
         \o CweCodes(violations, policy, k + 1)

\* (mutant) blocks only when several violations were pushed
ClassificationOfSeveral(violations) ==
    IF Len(violations) > 1 THEN "block" ELSE "pass"

\* violations.length ? 'block' : 'pass'
ClassificationOf(violations) ==
    IF Len(violations) # 0 THEN "block" ELSE "pass"

\* Math.ceil(input.length / 4)
TokenEstimate(input) == (Len(input) + 3) \div 4

\* the object guard returns; reasoning and providerError are sequences of
\* at most one element (empty: undefined)
GuardResultOf(input, policy, violations, reasoning, providerError) ==
    [classification |-> ClassificationOf(violations),
     violation_types |-> Distinct(violations),
     cwe_codes |-> Distinct(CweCodes(violations, policy, 1)),
     reasoning |-> reasoning,
     providerError |-> providerError,
     usage |-> [promptTokens |-> TokenEstimate(input),
                completionTokens |-> 0,
                totalTokens |-> TokenEstimate(input)]]


-----------------------------------------------------------------------------
(* settlementGuard (src/unnamed/part_001)                                    *)

\* Known scam addresses: the set is empty in the source.
KNOWN_BAD_ADDRESSES == {}

\* HEURISTIC_THRESHOLDS, in hundredths and in dollars
LOW_REPUTATION == 30
HIGH_VALUE_USD == 500

\* the weights of the five heuristic rules, in hundredths
KNOWN_BAD_WEIGHT == 50
LOW_REPUTATION_WEIGHT == 30
HIGH_VALUE_WEIGHT == 15
VAGUE_WEIGHT == 10
ZERO_ADDRESS_WEIGHT == 50
\* the shortest trimmed description that is not vague
MIN_DESCRIPTION == 10
\* the thresholds of the verdicts and the weight of the classifier's block
FAST_BLOCK_SCORE == 70
BLOCK_SCORE == 50
LLM_BLOCK_WEIGHT == 40
MAX_SCORE == 100

DigitValue(c) ==
    CASE c = "0" -> 0 [] c = "1" -> 1 [] c = "2" -> 2 [] c = "3" -> 3
      [] c = "4" -> 4 [] c = "5" -> 5 [] c = "6" -> 6 [] c = "7" -> 7
      [] c = "8" -> 8 [] c = "9" -> 9

RECURSIVE Strip(_, _)
\* s.replace(/[^...]/g, ''): the characters of s that are in keep
Strip(s, keep) ==
    IF s = <<>> THEN <<>>
    ELSE (IF Head(s) \in keep THEN <<Head(s)>> ELSE <<>>) \o Strip(Tail(s), keep)

RECURSIVE DigitsValue(_, _, _)
\* the value of the digits of s from offset i on, up to the first non-digit
DigitsValue(s, i, acc) ==
    IF i >= Len(s) \/ s[i + 1] \notin Digits THEN acc
    ELSE DigitsValue(s, i + 1, 10 * acc + DigitValue(s[i + 1]))

\* parseFloat on a string of digits and dots: the longest prefix
\* digits [. digits] that holds a digit; NaN when there is none.  The value
\* is kept as its integer part and whether a fraction digit is not zero.
ParseFloat(s) ==
    LET nInt == RunLen(s, 0, Digits, -1)
        dot == nInt < Len(s) /\ s[nInt + 1] = "."
        nFrac == IF dot THEN RunLen(s, nInt + 1, Digits, -1) ELSE 0
        frac == Slice(s, nInt + 1, nInt + 1 + nFrac)
    IN [nan |-> nInt + nFrac = 0,
        int |-> DigitsValue(s, 0, 0),
        fraction |-> \E k \in 1..Len(frac) : frac[k] # "0"]

\* numericAmount > HEURISTIC_THRESHOLDS.highValueUsd
ExceedsHighValue(n) ==
    \/ n.int > HIGH_VALUE_USD
    \/ n.int = HIGH_VALUE_USD /\ n.fraction

RECURSIVE TrimStart(_)
TrimStart(s) == IF s # <<>> /\ Head(s) \in Space THEN TrimStart(Tail(s)) ELSE s
RECURSIVE TrimEnd(_)
TrimEnd(s) ==
    IF s # <<>> /\ s[Len(s)] \in Space THEN TrimEnd(SubSeq(s, 1, Len(s) - 1))
    ELSE s
\* String.prototype.trim
Trim(s) == TrimEnd(TrimStart(s))

\* /^0x0{40}$/i
ZeroAddressRegex ==
    [isRegExp |-> TRUE, ignoreCase |-> TRUE, global |-> FALSE,
     atoms |-> <<Bol, Chr("0"), Chr("x"), Rep({"0"}, 40, 40), Eol>>]

Factor(text) == [text |-> text]

ZeroAddressFactor == Factor("Recipient is the zero address")

\* one rule of heuristicAnalysis: the factor is pushed and the weight added
\* when the rule fires
Rule(acc, fires, factor, weight) ==
    IF fires
    THEN [score |-> acc.score + weight, factors |-> Append(acc.factors, factor)]
    ELSE acc

heuristicAnalysis(meta) ==
    LET numericAmount == ParseFloat(Strip(meta.amount, Digits \cup {"."}))
        r1 == Rule([score |-> 0, factors |-> <<>>],
                   LowerStr(meta.recipientAddress) \in KNOWN_BAD_ADDRESSES,
                   Factor("Recipient address is on the known-bad list"),
                   KNOWN_BAD_WEIGHT)
        r2 == Rule(r1,
                   Has(meta, "reputationScore")
                       /\ meta.reputationScore < LOW_REPUTATION,
                   Factor("Counterparty reputation score is below threshold"),
                   LOW_REPUTATION_WEIGHT)
        r3 == Rule(r2,
                   ~numericAmount.nan /\ ExceedsHighValue(numericAmount),
                   Factor("Transaction amount exceeds high-value threshold"),
                   HIGH_VALUE_WEIGHT)
        r4 == Rule(r3,
                   Len(Trim(meta.serviceDescription)) < MIN_DESCRIPTION,
                   Factor("Service description is suspiciously short or vague"),
                   VAGUE_WEIGHT)
        r5 == Rule(r4,
                   RegExpTest(ZeroAddressRegex, meta.recipientAddress, 0).found,
                   ZeroAddressFactor,
                   ZERO_ADDRESS_WEIGHT)
    IN [riskScore |-> IF r5.score < MAX_SCORE THEN r5.score ELSE MAX_SCORE,
        riskFactors |-> r5.factors]

\* buildSettlementPrompt: the transaction details the prompt carries
buildSettlementPrompt(meta) ==
    [amount |-> meta.amount,
     currency |-> meta.currency,
     recipientAddress |-> meta.recipientAddress,
     serviceDescription |-> meta.serviceDescription,
     reputationScore |-> IF Has(meta, "reputationScore")
                         THEN <<meta.reputationScore>> ELSE <<>>]

\* (mutant) the fast path is taken only at the maximal score
FastPathAtMax(heuristicScore) == heuristicScore >= MAX_SCORE

\* heuristicScore >= 0.7
FastPath(heuristicScore) == heuristicScore >= FAST_BLOCK_SCORE

\* (mutant) a score of exactly 0.5 passes
VerdictAbove(score) == IF score > BLOCK_SCORE THEN "block" ELSE "pass"

\* score >= 0.5 ? 'block' : 'pass'
Verdict(score) == IF score >= BLOCK_SCORE THEN "block" ELSE "pass"

\* the fast-path result
FastBlockResult(heuristicScore, riskFactors) ==
    [classification |-> "block",
     reasoning |-> [prefix |-> "Blocked by heuristic analysis: ",
                    factors |-> riskFactors],
     riskScore |-> heuristicScore,
     riskFactors |-> riskFactors]

\* (mutant) the classifier's block adds 0.3
CombinedScoreLow(heuristicScore, classification) ==
    IF classification = "block"
    THEN (IF heuristicScore + 30 < MAX_SCORE THEN heuristicScore + 30 ELSE MAX_SCORE)
    ELSE heuristicScore

\* classification === 'block' ? Math.min(heuristicScore + 0.4, 1) : heuristicScore
CombinedScore(heuristicScore, classification) ==
    IF classification = "block"
    THEN (IF heuristicScore + LLM_BLOCK_WEIGHT < MAX_SCORE
          THEN heuristicScore + LLM_BLOCK_WEIGHT ELSE MAX_SCORE)
    ELSE heuristicScore

\* the result after a well-formed answer of the classifier
DeepScanResult(heuristicScore, riskFactors, parsed) ==
    LET factors == IF parsed.classification = "block"
                   THEN Append(riskFactors, Factor("LLM flagged as high-risk"))
                   ELSE riskFactors
        combined == CombinedScore(heuristicScore, parsed.classification)
    IN [classification |-> Verdict(combined),
        reasoning |-> [prefix |-> parsed.reasoning, factors |-> <<>>],
        riskScore |-> combined,
        riskFactors |-> factors]

\* (mutant) a classifier failure is recorded among the risk factors
SettlementCatchRecorded(riskFactors, err, options, errors) ==
    [riskFactors |-> Append(riskFactors, Factor("LLM unavailable")),
     errors |-> IF Has(options, "onError") THEN Append(errors, AsError(err))
                ELSE errors]

\* the catch block: options.onError?.(error), nothing else
SettlementCatch(riskFactors, err, options, errors) ==
    [riskFactors |-> riskFactors,
     errors |-> IF Has(options, "onError") THEN Append(errors, AsError(err))
                ELSE errors]

\* the final return: the heuristic verdict
HeuristicResult(heuristicScore, riskFactors) ==
    [classification |-> Verdict(heuristicScore),
     reasoning |-> IF Len(riskFactors) > 0
                   THEN [prefix |-> "Heuristic analysis: ", factors |-> riskFactors]
                   ELSE [prefix |-> "No risk signals detected.", factors |-> <<>>],
     riskScore |-> heuristicScore,
     riskFactors |-> riskFactors]

-----------------------------------------------------------------------------
(* validateUrl (src/src/utils/network.ts).  The URLs of the model carry no   *)
(* credentials, port or escapes, and their IPv4 hosts are written as four    *)
(* decimal parts, the form the URL parser leaves them in.                    *)

MAX_URL_LENGTH == 2048

RECURSIVE IndexOf(_, _, _)
\* s.indexOf(c, i)
IndexOf(s, c, i) ==
    IF i >= Len(s) THEN -1
    ELSE IF s[i + 1] = c THEN i
    ELSE IndexOf(s, c, i + 1)

RECURSIVE SplitOn(_, _)
\* s.split(sep)
SplitOn(s, sep) ==
    LET at == IndexOf(s, sep, 0)
    IN IF at = -1 THEN <<s>>
       ELSE <<Slice(s, 0, at)>> \o SplitOn(Slice(s, at + 1, Len(s)), sep)

\* a decimal part of an IPv4 address
IsOctet(part) ==
    /\ part # <<>>
    /\ Len(part) <= 3
    /\ \A k \in 1..Len(part) : part[k] \in Digits
    /\ DigitsValue(part, 0, 0) <= 255

\* ipaddr.isValid / ipaddr.process on a four-part address
ParseIpv4(ip) ==
    LET parts == SplitOn(ip, ".")
        valid == Len(parts) = 4 /\ \A k \in 1..4 : IsOctet(parts[k])
    IN [valid |-> valid,
        octets |-> IF valid THEN [k \in 1..4 |-> DigitsValue(parts[k], 0, 0)]
                   ELSE <<>>]

\* addr.range() of ipaddr.js for an IPv4 address
Ipv4Range(o) ==
    CASE o[1] = 0 -> "unspecified"
      [] o = <<255, 255, 255, 255>> -> "broadcast"
      [] o[1] >= 224 /\ o[1] <= 239 -> "multicast"
      [] o[1] = 169 /\ o[2] = 254 -> "linkLocal"
      [] o[1] = 127 -> "loopback"
      [] o[1] = 100 /\ o[2] >= 64 /\ o[2] <= 127 -> "carrierGradeNat"
      [] o[1] = 10 -> "private"
      [] o[1] = 172 /\ o[2] >= 16 /\ o[2] <= 31 -> "private"
      [] o[1] = 192 /\ o[2] = 168 -> "private"
      [] o[1] >= 240 -> "reserved"
      [] OTHER -> "unicast"

\* the value of a hexadecimal digit (10 for anything else is never used:
\* IsGroup is asked first)
HexDigit(c) ==
    CASE c \in Digits -> DigitValue(c)
      [] c \in {"a", "A"} -> 10
      [] c \in {"b", "B"} -> 11
      [] c \in {"c", "C"} -> 12
      [] c \in {"d", "D"} -> 13
      [] c \in {"e", "E"} -> 14
      [] c \in {"f", "F"} -> 15

\* one to four hexadecimal digits
IsGroup(part) ==
    /\ Len(part) \in 1..4
    /\ \A k \in 1..Len(part) :
           part[k] \in Digits \cup {"a", "b", "c", "d", "e", "f",
                                    "A", "B", "C", "D", "E", "F"}

RECURSIVE HexValue(_, _)
\* the value of the first n digits of a group
HexValue(part, n) ==
    IF n = 0 THEN 0 ELSE 16 * HexValue(part, n - 1) + HexDigit(part[n])

RECURSIVE GroupsOf(_, _)
\* the 16-bit groups that the parts k.. of an IPv6 address denote: -1 for a
\* '::', -2 for a part that is no group; the last part may be a dotted IPv4
\* address, which is two groups
GroupsOf(parts, k) ==
    IF k > Len(parts) THEN <<>>
    ELSE LET part == parts[k]
             dotted == ParseIpv4(part)
             here == IF part = <<>> THEN <<-1>>
                     ELSE IF IsGroup(part) THEN <<HexValue(part, Len(part))>>
                     ELSE IF k = Len(parts) /\ dotted.valid
                     THEN <<256 * dotted.octets[1] + dotted.octets[2],
                            256 * dotted.octets[3] + dotted.octets[4]>>
                     ELSE <<-2>>
         IN here \o GroupsOf(parts, k + 1)

\* the parts between the colons of an IPv6 address, a '::' at either end
\* (which leaves two empty parts) as one empty part
ColonParts(parts) ==
    SubSeq(parts,
           IF Len(parts) >= 3 /\ parts[1] = <<>> /\ parts[2] = <<>>
           THEN 2 ELSE 1,
           IF Len(parts) >= 3 /\ parts[Len(parts)] = <<>>
              /\ parts[Len(parts) - 1] = <<>>
           THEN Len(parts) - 1 ELSE Len(parts))

\* the eight groups of an address whose groups are given, with the places
\* of its '::': zeros fill the gap
ExpandGroups(groups, gaps, count) ==
    IF \/ \E k \in 1..Len(groups) : groups[k] = -2
       \/ gaps = {} /\ count # 8
       \/ gaps # {} /\ (Cardinality(gaps) # 1 \/ count > 7)
    THEN [valid |-> FALSE, groups |-> <<>>]
    ELSE [valid |-> TRUE,
          groups |-> IF gaps = {} THEN groups
                     ELSE SubSeq(groups, 1, (CHOOSE k \in gaps : TRUE) - 1)
                              \o SubSeq(<<0, 0, 0, 0, 0, 0, 0, 0>>, 1, 8 - count)
                              \o SubSeq(groups, (CHOOSE k \in gaps : TRUE) + 1,
                                        Len(groups))]

\* the gaps of a list of groups counted, then expanded
WithGaps(groups, gaps) ==
    ExpandGroups(groups, gaps, Len(groups) - Cardinality(gaps))

\* the groups of an address, with its gaps found
Grouped(groups) ==
    WithGaps(groups, {k \in 1..Len(groups) : groups[k] = -1})

\* ipaddr.IPv6.isValid / parse: the eight groups of an address written with
\* or without one '::'
ParseIpv6(ip) == Grouped(GroupsOf(ColonParts(SplitOn(ip, ":")), 1))

\* addr.range() of ipaddr.js for an IPv6 address, as far as the ranges that
\* isPrivateIpAddress asks about and the IPv4-mapped one go
Ipv6Range(g) ==
    CASE \A k \in 1..8 : g[k] = 0 -> "unspecified"
      [] g[1] >= 65152 /\ g[1] <= 65215 -> "linkLocal"
      [] g[1] >= 65280 -> "multicast"
      [] (\A k \in 1..7 : g[k] = 0) /\ g[8] = 1 -> "loopback"
      [] g[1] >= 64512 /\ g[1] <= 65023 -> "uniqueLocal"
      [] (\A k \in 1..5 : g[k] = 0) /\ g[6] = 65535 -> "ipv4Mapped"
      [] OTHER -> "unicast"

\* ipaddr.isValid
IsValidAddress(ip) == ParseIpv6(ip).valid \/ ParseIpv4(ip).valid

\* the range test of an IPv6 address with groups g; an IPv4-mapped address
\* is tested as the IPv4 address it maps
PrivateGroups(g) ==
    IF Ipv6Range(g) = "ipv4Mapped"
    THEN Ipv4Range(<<g[7] \div 256, g[7] % 256, g[8] \div 256, g[8] % 256>>)
             \in {"private", "loopback", "linkLocal", "multicast"}
    ELSE Ipv6Range(g) \in {"uniqueLocal", "linkLocal", "loopback", "multicast"}

\* ipaddr.process, then the range test of the address's family; an address
\* that does not parse counts as private
isPrivateIpAddress(ip) ==
    IF ParseIpv6(ip).valid THEN PrivateGroups(ParseIpv6(ip).groups)
    ELSE IF ParseIpv4(ip).valid
    THEN Ipv4Range(ParseIpv4(ip).octets)
             \in {"private", "loopback", "linkLocal", "multicast"}
    ELSE TRUE

Localhost == <<"l", "o", "c", "a", "l", "h", "o", "s", "t">>

\* 'localhost', 'localhost.localdomain', 'local'
LocalNames ==
    { Localhost,
      Localhost \o <<".", "l", "o", "c", "a", "l", "d", "o", "m", "a", "i", "n">>,
      <<"l", "o", "c", "a", "l">> }

\* '127.0.0.1', '::1'
LoopbackAddresses ==
    { <<"1", "2", "7", ".", "0", ".", "0", ".", "1">>, <<":", ":", "1">> }

\* hostname.replace(/^\[|\]$/g, '')
StripBrackets(hostname) ==
    LET from == IF hostname # <<>> /\ Head(hostname) = "[" THEN 1 ELSE 0
        to == IF Len(hostname) > from /\ hostname[Len(hostname)] = "]"
              THEN Len(hostname) - 1 ELSE Len(hostname)
    IN Slice(hostname, from, to)

\* isPrivateIp up to its DNS lookup: the verdict on a name it knows or on an
\* address, or the need to look the name up
isPrivateIp(hostname) ==
    LET lowerHostname == LowerStr(hostname)
        cleanHostname == StripBrackets(hostname)
    IN IF lowerHostname \in LocalNames \cup LoopbackAddresses
       THEN [lookup |-> FALSE, private |-> TRUE]
       ELSE IF IsValidAddress(cleanHostname)
       THEN [lookup |-> FALSE, private |-> isPrivateIpAddress(cleanHostname)]
       ELSE [lookup |-> TRUE, private |-> FALSE]

\* (mutant) an address that does not parse is passed over
SomePrivateParsed(results) ==
    \E k \in 1..Len(results) :
        IsValidAddress(results[k]) /\ isPrivateIpAddress(results[k])

\* (mutant) only the first address is looked at
FirstPrivate(results) ==
    results # <<>> /\ isPrivateIpAddress(results[1])

\* results.some((r) => isPrivateIpAddress(r.address))
SomePrivate(results) ==
    \E k \in 1..Len(results) : isPrivateIpAddress(results[k])

Http == <<"h", "t", "t", "p">>
Https == Http \o <<"s">>
File == <<"f", "i", "l", "e">>

\* new URL(url): surrounding spaces are dropped; the scheme is the letters
\* before the first ':', in lower case; the host runs from the slashes to
\* the next '/', '?' or '#', in lower case.  An http(s) URL without a host,
\* or with a space in it, does not parse.
ParseUrl(url) ==
    LET text == Trim(url)
        nScheme == RunLen(text, 0, Letters, -1)
        colon == nScheme > 0 /\ nScheme < Len(text) /\ text[nScheme + 1] = ":"
        protocol == LowerStr(Slice(text, 0, nScheme))
        hostStart == nScheme + 1 + RunLen(text, nScheme + 1, {"/"}, -1)
        stop == ExecStart(<<Rep({"/", "?", "#"}, 1, 1)>>, text, hostStart)
        hostEnd == IF stop = -1 THEN Len(text) ELSE stop
        hostname == LowerStr(Slice(text, hostStart, hostEnd))
    IN [valid |-> /\ colon
                  /\ protocol \in {Http, Https} =>
                        /\ hostname # <<>>
                        /\ \A k \in 1..Len(hostname) : hostname[k] \notin Space,
        protocol |-> protocol,
        hostname |-> hostname]

Refused(message) == [ok |-> FALSE, message |-> message, hostname |-> <<>>]

StartsWith(s, prefix) ==
    Len(s) >= Len(prefix) /\ Slice(s, 0, Len(prefix)) = prefix

\* validateUrl up to its await of isPrivateIp: the error it throws, or the
\* hostname it goes on with
validateUrlChecks(url) ==
    IF Len(url) > MAX_URL_LENGTH
    THEN Refused("Invalid URL: URL exceeds maximum length of 2048 characters")
    ELSE LET parsed == ParseUrl(url)
             cleanHostname == StripBrackets(parsed.hostname)
         IN IF ~parsed.valid
            THEN Refused("Invalid URL: malformed URL format")
            ELSE IF parsed.protocol \notin {Http, Https}
            THEN (IF parsed.protocol = File
                  THEN Refused("Invalid URL: file:// protocol is not allowed")
                  ELSE Refused("Invalid URL: protocol must be http or https"))
            ELSE IF parsed.hostname = <<>>
            THEN Refused("Invalid URL: hostname is required")
            ELSE IF \/ LowerStr(parsed.hostname) \in LocalNames
                    \/ cleanHostname \in LoopbackAddresses
                    \/ StartsWith(cleanHostname, <<"1", "2", "7", ".">>)
            THEN Refused("Invalid URL: localhost access is not allowed")
            ELSE [ok |-> TRUE, message |-> "", hostname |-> parsed.hostname]

PrivateMessage == "Invalid URL: private/internal IP addresses are not allowed"

-----------------------------------------------------------------------------
(* guardTool and wrapAgentTool (src/src/tool-guard.ts).  An argument is a    *)
(* string, [type |-> "string", value |-> characters], or any other value,    *)
(* given by its type and its JSON text.                                      *)

\* Array.prototype.includes
Includes(list, x) == \E k \in 1..Len(list) : list[k] = x

\* what the model's toolValidator functions return for (tool, args)
ValidatorResult(validator, tool, args) ==
    CASE validator = "accepts" -> [type |-> "boolean", value |-> TRUE]
      [] validator = "refuses" -> [type |-> "boolean", value |-> FALSE]
      [] validator = "needsArguments" ->
            [type |-> "boolean", value |-> args # <<>>]
      [] validator = "explains" -> [type |-> "string", text |-> "not permitted"]
      [] validator = "throws" -> [type |-> "throw", message |-> "validator failed"]

\* the toolValidator call of guardTool throws
ValidatorThrows(tool, args, policy) ==
    /\ Has(policy, "toolValidator")
    /\ ValidatorResult(policy.toolValidator, tool, args).type = "throw"

Allowed == [allowed |-> TRUE, violations |-> <<>>, reason |-> [text |-> ""]]

\* (mutant) a string from the validator is one more violation, the reason
\* chosen as for the others
guardToolStringAsFalse(tool, args, policy) ==
    LET v1 == IF Has(policy, "toolBlocklist") /\ Includes(policy.toolBlocklist, tool)
              THEN <<"tool-blocked">> ELSE <<>>
        v2 == IF /\ Has(policy, "toolAllowlist")
                 /\ Len(policy.toolAllowlist) > 0
                 /\ ~Includes(policy.toolAllowlist, tool)
              THEN Append(v1, "tool-not-allowed") ELSE v1
        validationResult ==
            IF Has(policy, "toolValidator")
            THEN ValidatorResult(policy.toolValidator, tool, args)
            ELSE [type |-> "undefined"]
        v3 == IF \/ validationResult.type = "string"
                 \/ validationResult.type = "boolean" /\ ~validationResult.value
              THEN Append(v2, "tool-validation-failed") ELSE v2
    IN IF Has(policy, "undefined") THEN Allowed
       ELSE IF Len(v3) > 0
       THEN [allowed |-> FALSE,
             violations |-> v3,
             reason |-> IF Includes(v3, "tool-blocked")
                        THEN [text |-> "Tool '%s' is explicitly blocked by policy.",
                              tool |-> tool]
                        ELSE [text |-> "Tool '%s' failed security policy validation.",
                              tool |-> tool]]
       ELSE Allowed

\* guardTool(tool, args, policy), for a validator that returns
guardTool(tool, args, policy) ==
    LET v1 == IF Has(policy, "toolBlocklist") /\ Includes(policy.toolBlocklist, tool)
              THEN <<"tool-blocked">> ELSE <<>>
        v2 == IF /\ Has(policy, "toolAllowlist")
                 /\ Len(policy.toolAllowlist) > 0
                 /\ ~Includes(policy.toolAllowlist, tool)
              THEN Append(v1, "tool-not-allowed") ELSE v1
        validated == Has(policy, "toolValidator")
        validationResult ==
            IF validated THEN ValidatorResult(policy.toolValidator, tool, args)
            ELSE [type |-> "undefined"]
        v3 == IF validationResult.type = "boolean" /\ ~validationResult.value
              THEN Append(v2, "tool-validation-failed") ELSE v2
    IN IF Has(policy, "undefined") THEN Allowed
       ELSE IF validationResult.type = "string"
       THEN [allowed |-> FALSE,
             violations |-> <<"tool-validation-failed">>,
             reason |-> [text |-> validationResult.text]]
       ELSE IF Len(v3) > 0
       THEN [allowed |-> FALSE,
             violations |-> v3,
             reason |-> IF Includes(v3, "tool-blocked")
                        THEN [text |-> "Tool '%s' is explicitly blocked by policy.",
                              tool |-> tool]
                        ELSE [text |-> "Tool '%s' failed security policy validation.",
                              tool |-> tool]]
       ELSE Allowed

\* toolName = toolFn.name || 'anonymous', unless options.toolName is given
ToolNameOf(toolFn, options) ==
    IF Has(options, "toolName") THEN options.toolName
    ELSE IF toolFn.name # "" THEN toolFn.name
    ELSE "anonymous"

\* ssrfCheck = true, unless options.ssrfCheck is given
SsrfCheckOf(options) ==
    IF Has(options, "ssrfCheck") THEN options.ssrfCheck ELSE TRUE

GuardOptionsOf(options) ==
    IF Has(options, "guardOptions") THEN options.guardOptions ELSE <<>>

\* (mutant) only a blocklisted tool is refused
PolicyBlocksListed(toolCheck) ==
    ~toolCheck.allowed /\ Includes(toolCheck.violations, "tool-blocked")

\* !toolCheck.allowed
PolicyBlocks(toolCheck) == ~toolCheck.allowed

\* the Error thrown for a tool the policy refuses
PolicyError(toolName, toolCheck) ==
    [layer |-> "policy",
     text |-> "[Agntor] Tool \"%s\" blocked: %s",
     tool |-> toolName,
     reason |-> toolCheck.reason]

\* (mutant) every argument is turned into text and redacted
SafeArgsCoerced(args, policy) ==
    [k \in 1..Len(args) |->
        [type |-> "string",
         value |-> redact(IF args[k].type = "string" THEN args[k].value
                          ELSE args[k].json, policy).redacted]]

\* args.map(...): every string argument redacted, the others as they are
SafeArgs(args, policy) ==
    [k \in 1..Len(args) |->
        IF args[k].type = "string"
        THEN [type |-> "string", value |-> redact(args[k].value, policy).redacted]
        ELSE args[k]]

\* the characters of a JSON string literal
JsonQuote(chars) ==
    LET Escaped(c) == CASE c = "\"" -> <<"\\", "\"">>
                        [] c = "\\" -> <<"\\", "\\">>
                        [] OTHER -> <<c>>
        Body[k \in 0..Len(chars)] ==
            IF k = 0 THEN <<>> ELSE Body[k - 1] \o Escaped(chars[k])
    IN <<"\"">> \o Body[Len(chars)] \o <<"\"">>

\* JSON.stringify of an argument list
JsonStringify(args) ==
    LET JsonOf(arg) ==
            IF arg.type = "string" THEN JsonQuote(arg.value) ELSE arg.json
        Items[k \in 0..Len(args)] ==
            IF k = 0 THEN <<>>
            ELSE Items[k - 1] \o (IF k > 1 THEN <<",">> ELSE <<>>) \o JsonOf(args[k])
    IN <<"[">> \o Items[Len(args)] \o <<"]">>

\* (mutant) the arguments are serialised as they came
SerialisedOriginal(args, safeArgs) == JsonStringify(args)

\* (mutant) the serialisation without the brackets around the list
SerialisedInside(args, safeArgs) ==
    Slice(JsonStringify(safeArgs), 1, Len(JsonStringify(safeArgs)) - 1)

\* const serialised = JSON.stringify(safeArgs)
Serialised(args, safeArgs) == JsonStringify(safeArgs)

\* (mutant) the guard's verdict is not looked at
GuardBlocksNever(guardResult) == FALSE

\* guardResult.classification === 'block'
GuardBlocks(guardResult) == guardResult.classification = "block"

GuardError(toolName, guardResult) ==
    [layer |-> "guard",
     text |-> "[Agntor] Tool \"%s\" input blocked by guard: %s",
     tool |-> toolName,
     violations |-> guardResult.violation_types]

\* (the dash of the source's message is written '-')
SsrfError(toolName, message) ==
    [layer |-> "ssrf",
     text |-> "[Agntor] Tool \"%s\" blocked - SSRF risk: %s",
     tool |-> toolName,
     cause |-> message]

\* /^https?:\/\//i
LikelyUrlRegex ==
    [isRegExp |-> TRUE, ignoreCase |-> TRUE, global |-> FALSE,
     atoms |-> <<Bol, Chr("h"), Chr("t"), Chr("t"), Chr("p"), Rep({"s"}, 0, 1),
                 Chr(":"), Chr("/"), Chr("/")>>]

isLikelyUrl(value) == RegExpTest(LikelyUrlRegex, Trim(value), 0).found

RECURSIVE SsrfScan(_, _)
\* the loop over safeArgs from the k-th argument up to its next await, throw
\* or end: the DNS lookup for argument `index`, the message of the error
\* caught from validateUrl, or the call of the tool
SsrfScan(safeArgs, k) ==
    IF k > Len(safeArgs)
    THEN [pc |-> "tool", index |-> 0, layer |-> "ssrf", message |-> ""]
    ELSE IF safeArgs[k].type # "string" \/ ~isLikelyUrl(safeArgs[k].value)
    THEN SsrfScan(safeArgs, k + 1)
    ELSE LET checked == validateUrlChecks(safeArgs[k].value)
             verdict == isPrivateIp(checked.hostname)
         IN IF ~checked.ok
            THEN [pc |-> "rejected", index |-> k, layer |-> "ssrf",
                  message |-> checked.message]
            ELSE IF verdict.lookup
            THEN [pc |-> "lookup", index |-> k, layer |-> "ssrf", message |-> ""]
            ELSE IF verdict.private
            THEN [pc |-> "rejected", index |-> k, layer |-> "ssrf",
                  message |-> PrivateMessage]
            ELSE SsrfScan(safeArgs, k + 1)

\* the wrapped function after the guard's result: the throw for a blocked
\* input, else the SSRF loop when it is on, else the call of the tool
AfterGuard(safeArgs, guardResult, ssrfCheck) ==
    IF GuardBlocks(guardResult)
    THEN [pc |-> "rejected", index |-> 0, layer |-> "guard", message |-> ""]
    ELSE IF ssrfCheck THEN SsrfScan(safeArgs, 1)
    ELSE [pc |-> "tool", index |-> 0, layer |-> "guard", message |-> ""]

-----------------------------------------------------------------------------
(* TicketIssuer.  The payload schemas are those of src/src/types.ts; the     *)
(* issuer's methods follow section 4.1 of the specification and the issuer   *)
(* tests (src/unnamed/part_000).  Times are Unix seconds.  A signature is    *)
(* the pair of the key and the content it was computed over, so that it      *)
(* verifies under that key for that content only.                            *)

\* the ticket lifetime when neither the call nor the configuration gives one
DEFAULT_VALIDITY == 300

\* the payment protocol a ticket with requires_x402_payment asks for
REQUIRED_PROTOCOL == "x402"

\* AuditConstraints.safeParse(c).success
ConstraintsAccepted(c) ==
    /\ Has(c, "max_op_value") /\ c.max_op_value > 0
    /\ Has(c, "allowed_mcp_servers")
    /\ Has(c, "kill_switch_active")

\* AuditTicketPayload.safeParse(p).success
PayloadAccepted(p) ==
    /\ {"iss", "sub", "iat", "exp", "audit_level", "constraints"}
           \subseteq DOMAIN p
    /\ p.audit_level \in {"Bronze", "Silver", "Gold", "Platinum"}
    /\ ConstraintsAccepted(p.constraints)

\* the signature of payload under key
Sign(key, payload) == [key |-> key, payload |-> payload]

\* the lifetime of a ticket: the call's validityDuration, else the
\* configuration's defaultValidity, else the default
ValidityOf(config, options) ==
    IF Has(options, "validityDuration") THEN options.validityDuration
    ELSE IF Has(config, "defaultValidity") THEN config.defaultValidity
    ELSE DEFAULT_VALIDITY

\* generateTicket throws on options that fail the schemas
GenerateThrows(options) ==
    \/ options.auditLevel \notin {"Bronze", "Silver", "Gold", "Platinum"}
    \/ ~ConstraintsAccepted(options.constraints)

\* generateTicket at time now: requires_x402_payment is true unless the
\* constraints say otherwise (in f @@ g the fields of f win)
generateTicket(config, options, now) ==
    LET payload ==
            [iss |-> config.issuer,
             sub |-> options.agentId,
             iat |-> now,
             exp |-> now + ValidityOf(config, options),
             audit_level |-> options.auditLevel,
             constraints |->
                 options.constraints @@ [requires_x402_payment |-> TRUE]]
    IN [payload |-> payload, signature |-> Sign(config.signingKey, payload)]

\* a ValidationResult that rejects; payload is a sequence of at most one
\* element (empty: undefined)
Rejected(errorCode, error) ==
    [valid |-> FALSE, errorCode |-> errorCode, error |-> error,
     payload |-> <<>>]

\* { valid: true, payload }
Accepted(payload) ==
    [valid |-> TRUE, errorCode |-> "", error |-> "", payload |-> <<payload>>]

\* (mutant) a ticket is expired from the second it expires in
ExpiredFrom(payload, now) == now >= payload.exp

\* the expiry check: now > exp
Expired(payload, now) == now > payload.exp

\* (mutant) looks at the kill switch before the expiry
validateTicketSyncKillSwitchFirst(config, token, now) ==
    IF token.signature # Sign(config.signingKey, token.payload)
    THEN Rejected("INVALID_SIGNATURE", "Invalid signature")
    ELSE IF ~PayloadAccepted(token.payload)
    THEN Rejected("INVALID_FORMAT", "Invalid ticket format")
    ELSE IF token.payload.constraints.kill_switch_active
    THEN Rejected("KILL_SWITCH", "Kill switch is active")
    ELSE IF Expired(token.payload, now)
    THEN Rejected("EXPIRED", "Ticket has expired")
    ELSE Accepted(token.payload)

\* validateTicketSync at time now: signature, shape, expiry, kill switch,
\* the first failure returned
validateTicketSync(config, token, now) ==
    IF token.signature # Sign(config.signingKey, token.payload)
    THEN Rejected("INVALID_SIGNATURE", "Invalid signature")
    ELSE IF ~PayloadAccepted(token.payload)
    THEN Rejected("INVALID_FORMAT", "Invalid ticket format")
    ELSE IF Expired(token.payload, now)
    THEN Rejected("EXPIRED", "Ticket has expired")
    ELSE IF token.payload.constraints.kill_switch_active
    THEN Rejected("KILL_SWITCH", "Kill switch is active")
    ELSE Accepted(token.payload)

\* (mutant) the asynchronous variant leaves the kill switch to the caller
validateTicketNoKillSwitch(config, token, now) ==
    IF token.signature # Sign(config.signingKey, token.payload)
    THEN Rejected("INVALID_SIGNATURE", "Invalid signature")
    ELSE IF ~PayloadAccepted(token.payload)
    THEN Rejected("INVALID_FORMAT", "Invalid ticket format")
    ELSE IF Expired(token.payload, now)
    THEN Rejected("EXPIRED", "Ticket has expired")
    ELSE Accepted(token.payload)

\* validateTicket (async) at time now: the key is looked up, then the same
\* four checks in the same order
validateTicket(config, token, now) ==
    LET key == config.signingKey
        verified == token.signature.key = key
                    /\ token.signature.payload = token.payload
    IN IF ~verified
       THEN Rejected("INVALID_SIGNATURE", "Invalid signature")
       ELSE IF ~PayloadAccepted(token.payload)
       THEN Rejected("INVALID_FORMAT", "Invalid ticket format")
       ELSE IF Expired(token.payload, now)
       THEN Rejected("EXPIRED", "Ticket has expired")
       ELSE IF token.payload.constraints.kill_switch_active
       THEN Rejected("KILL_SWITCH", "Kill switch is active")
       ELSE Accepted(token.payload)

\* whether the payment context carries a non-empty proof: at least txHash
HasProof(context) ==
    /\ Has(context, "x402Proof")
    /\ Has(context.x402Proof, "txHash")
    /\ context.x402Proof.txHash # ""

\* the payment check of validateTransaction: "" when it passes, else the
\* message naming what is missing
PaymentViolation(constraints, context) ==
    IF ~(Has(constraints, "requires_x402_payment")
         /\ constraints.requires_x402_payment)
    THEN ""
    ELSE IF ~(Has(context, "protocol")
              /\ context.protocol = REQUIRED_PROTOCOL)
    THEN "Transaction requires x402 payment protocol"
    ELSE IF ~HasProof(context)
    THEN "Missing x402 payment proof"
    ELSE ""

\* (mutant) no value is over the limit
OverLimitNever(constraints, value) == FALSE

\* value > max_op_value
OverLimit(constraints, value) == value > constraints.max_op_value

\* validateTransaction at time now: validateTicket first, then the value,
\* the target server (a sequence of at most one element) and the payment
\* proof, the first violation returned
validateTransaction(config, token, value, targetServer, context, now) ==
    LET result == validateTicket(config, token, now)
        constraints == token.payload.constraints
    IN IF ~result.valid THEN result
       ELSE IF OverLimit(constraints, value)
       THEN Rejected("CONSTRAINT_VIOLATION",
                     "Transaction value exceeds limit")
       ELSE IF /\ targetServer # <<>>
               /\ ~Includes(constraints.allowed_mcp_servers, targetServer[1])
       THEN Rejected("CONSTRAINT_VIOLATION",
                     "Target server not in allowed list")
       ELSE IF PaymentViolation(constraints, context) # ""
       THEN Rejected("CONSTRAINT_VIOLATION",
                     PaymentViolation(constraints, context))
       ELSE result

-----------------------------------------------------------------------------
(* Agntor.request (src/src/agntor.ts).  An error is its name, its code (of   *)
(* an AgntorError) and its statusCode; code and statusCode are sequences of  *)
(* at most one element.  The timer of a request is the only source of an     *)
(* AbortError: the caller's signal is replaced by the controller's.          *)

DEFAULT_MAX_RETRIES == 3

\* config.maxRetries ?? DEFAULT_MAX_RETRIES
MaxRetriesOf(config) ==
    IF Has(config, "maxRetries") THEN config.maxRetries ELSE DEFAULT_MAX_RETRIES

\* new AgntorError(message, code, statusCode)
AgntorError(code, statusCode) ==
    [name |-> "AgntorError", code |-> <<code>>, statusCode |-> statusCode]

\* an error that is no AgntorError: a TypeError of fetch, the AbortError of
\* the timer, a SyntaxError of response.json()
OtherError(name) == [name |-> name, code |-> <<>>, statusCode |-> <<>>]

\* response.ok
ResponseOk(status) == status \in 200..299

\* (mutant) every error status ends the call
IsErrorStatus(err) ==
    /\ err.name = "AgntorError"
    /\ err.statusCode # <<>>
    /\ err.statusCode[1] >= 400

\* err instanceof AgntorError && err.statusCode && err.statusCode >= 400
\*     && err.statusCode < 500
IsClientError(err) ==
    /\ err.name = "AgntorError"
    /\ err.statusCode # <<>>
    /\ err.statusCode[1] # 0
    /\ err.statusCode[1] >= 400
    /\ err.statusCode[1] < 500

\* the catch block for err in attempt `attempt`, up to the next fetch, and
\* the throw behind the loop when that was the last attempt
Caught(err, attempt, maxRetries) ==
    IF IsClientError(err)
    THEN [pc |-> "rejected", lastError |-> <<err>>, thrown |-> <<err>>]
    ELSE IF err.name = "AbortError"
    THEN [pc |-> "rejected", lastError |-> <<err>>,
          thrown |-> <<AgntorError("TIMEOUT", <<>>)>>]
    ELSE IF attempt < maxRetries
    THEN [pc |-> "wait", lastError |-> <<err>>, thrown |-> <<>>]
    ELSE [pc |-> "rejected", lastError |-> <<err>>, thrown |-> <<err>>]

-----------------------------------------------------------------------------
(* The state machines.  Each specification exercises one component; the      *)
(* variables of the others stay idle.                                        *)

RECURSIVE Strings(_, _)
\* the strings over chars of length at most n
Strings(chars, n) ==
    IF n = 0 THEN {<<>>}
    ELSE LET shorter == Strings(chars, n - 1)
         IN shorter \cup {Append(s, c) : s \in shorter, c \in chars}

RECURSIVE Repeat(_, _)
Repeat(c, n) == IF n = 0 THEN <<>> ELSE <<c>> \o Repeat(c, n - 1)

\* the most calls made with one policy object
MaxCalls == 2

NoResult == [redacted |-> <<>>, findings |-> <<>>]

\* the variables of redact's callers while another component is exercised
IdleRedact ==
    /\ rInput = <<>>
    /\ rPolicy = <<>>
    /\ rpc = "idle"
    /\ rFirst = NoResult
    /\ rSecond = NoResult

NoGuardResult == GuardResultOf(<<>>, <<>>, <<>>, <<>>, <<>>)

IdleGuard ==
    /\ gPolicy = <<>>
    /\ gLastIndex = <<>>
    /\ gCalls = 0
    /\ gInput = <<>>
    /\ gOptions = <<>>
    /\ gpc = "idle"
    /\ gViolations = <<>>
    /\ gReasoning = <<>>
    /\ gProviderError = <<>>
    /\ gStartIndex = <<>>
    /\ gClassified = 0
    /\ gFailure = <<>>
    /\ gErrors = <<>>
    /\ gResult = NoGuardResult

NoAssessment == HeuristicResult(0, <<>>)

IdleSettlement ==
    /\ sMeta = <<>>
    /\ sOptions = <<>>
    /\ spc = "idle"
    /\ sScore = 0
    /\ sFactors = <<>>
    /\ sClassified = 0
    /\ sPrompt = <<>>
    /\ sAnswer = <<>>
    /\ sFailure = <<>>
    /\ sErrors = <<>>
    /\ sResult = NoAssessment

\* the locals of an invocation of the wrapped function before it starts
NoInvocation ==
    /\ wpc = "idle"
    /\ wArgs = <<>>
    /\ wSafeArgs = <<>>
    /\ wTrace = <<>>
    /\ wIndex = 0
    /\ wLookups = <<>>
    /\ wInvoked = 0
    /\ wToolArgs = <<>>
    /\ wOutcome = <<>>

IdleWrap ==
    /\ wToolFn = <<>>
    /\ wOptions = <<>>
    /\ wCalls = 0
    /\ NoInvocation

IdleTicket ==
    /\ tNow = 0
    /\ tTicks = 0
    /\ tConfig = <<>>
    /\ tTicket = <<>>
    /\ tSync = <<>>
    /\ tAsync = <<>>
    /\ tTx = <<>>

IdleTool ==
    /\ qCalls = 0
    /\ qTool = ""
    /\ qArgs = <<>>
    /\ qPolicy = [undefined |-> TRUE]
    /\ qResult = <<>>

IdleUrl ==
    /\ uUrl = <<>>
    /\ upc = "idle"
    /\ uResults = <<>>
    /\ uOutcome = <<>>

IdleRequest ==
    /\ hMaxRetries = 0
    /\ hpc = "idle"
    /\ hAttempt = 0
    /\ hFetches = <<>>
    /\ hLastError = <<>>
    /\ hOutcome = <<>>

IdleConcurrent ==
    /\ cToolFn = <<>>
    /\ cOptions = <<>>
    /\ cLastIndex = <<>>
    /\ cInv = <<>>

-----------------------------------------------------------------------------
(* Callers of guard: successive calls with one policy object, each with an   *)
(* input and options of its own; the classifier resolves or rejects.         *)

GuardBodies ==
    Strings({"x", "i"}, MaxBody)
        \cup { <<"[", "I", "N", "S", "T", "]">>,
               <<"[", "i", "n", "s", "t", "]", " ", "D", "A", "N", " ", "m", "o", "d", "e">>,
               <<"x", "D", "A", "N", " ", "m", "o", "d", "e">> }

\* bodies behind no delimiters, or behind about BRACKET_LIMIT of them
GuardInputs ==
    {Repeat("{", n) \o body :
        n \in {0, BRACKET_LIMIT - 1, BRACKET_LIMIT, BRACKET_LIMIT + 1},
        body \in GuardBodies}

GuardPolicies ==
    { \* {}
      <<>>,
      \* injectionPatterns: ['xi'], with a cweMap
      [injectionPatterns |-> <<[isRegExp |-> FALSE, atoms |-> <<Chr("X"), Chr("i")>>]>>,
       cweMap |-> ("prompt-injection" :> "CWE-77")
                    @@ ("llm-flagged-injection" :> "CWE-77")],
      \* injectionPatterns: [/x/g]
      [injectionPatterns |->
          <<[isRegExp |-> TRUE, ignoreCase |-> FALSE, global |-> TRUE,
             atoms |-> <<Chr("x")>>]>>],
      \* injectionPatterns: [/i/, /xx/gi]
      [injectionPatterns |->
          <<[isRegExp |-> TRUE, ignoreCase |-> FALSE, global |-> FALSE,
             atoms |-> <<Chr("i")>>],
            [isRegExp |-> TRUE, ignoreCase |-> TRUE, global |-> TRUE,
             atoms |-> <<Chr("x"), Chr("X")>>]>>,
       cweMap |-> ("potential-obfuscation" :> "CWE-116")] }

GuardOptionsSet ==
    { <<>>,
      [deepScan |-> TRUE],
      [deepScan |-> FALSE, provider |-> "provider"],
      [provider |-> "provider", onError |-> "callback"],
      [deepScan |-> TRUE, provider |-> "provider"],
      [deepScan |-> TRUE, provider |-> "provider", onError |-> "callback"] }

\* what classify may resolve with: two well-formed answers and two that the
\* schema refuses
ClassifierAnswers ==
    { [classification |-> "pass", reasoning |-> "looks good"],
      [classification |-> "block", reasoning |-> "injection detected"],
      [classification |-> "maybe", reasoning |-> "unsure"],
      [classification |-> "block"] }

\* what classify may reject with: an Error, or a value that is not one
ClassifierErrors ==
    { [isError |-> TRUE, message |-> "API rate limited"],
      [isError |-> FALSE, text |-> "timeout"] }

InitGuard ==
    /\ IdleUrl
    /\ IdleRequest
    /\ IdleConcurrent
    /\ IdleTicket
    /\ IdleTool
    /\ IdleRedact
    /\ IdleSettlement
    /\ IdleWrap
    /\ gPolicy \in GuardPolicies
    /\ gLastIndex = [k \in 1..Len(CustomInjection(gPolicy)) |-> 0]
    /\ gCalls = 0
    /\ gInput = <<>>
    /\ gOptions = <<>>
    /\ gpc = "idle"
    /\ gViolations = <<>>
    /\ gReasoning = <<>>
    /\ gProviderError = <<>>
    /\ gStartIndex = <<>>
    /\ gClassified = 0
    /\ gFailure = <<>>
    /\ gErrors = <<>>
    /\ gResult = NoGuardResult

\* guard(input, policy, options) up to its return or to the await of
\* options.provider.classify(input)
GuardBegin(input, options) ==
    /\ gpc = "idle"
    /\ \E lexical \in {LexicalPass(input, gPolicy, 1, gLastIndex, <<>>)} :
          /\ gLastIndex' = lexical.lastIndex
          /\ gViolations' = HeuristicPass(input, lexical.violations)
    /\ IF DeepScanRequested(options)
       THEN /\ gpc' = "classify"
            /\ gClassified' = 1
            /\ gResult' = NoGuardResult
       ELSE /\ gpc' = "done"
            /\ gClassified' = 0
            /\ gResult' = GuardResultOf(input, gPolicy, gViolations', <<>>, <<>>)
    /\ gCalls' = gCalls + 1
    /\ gInput' = input
    /\ gOptions' = options
    /\ gStartIndex' = gLastIndex
    /\ gReasoning' = <<>>
    /\ gProviderError' = <<>>
    /\ gFailure' = <<>>
    /\ gErrors' = <<>>
    /\ UNCHANGED gPolicy

\* a caller calls guard
GuardCall(input, options) ==
    /\ gCalls < MaxCalls
    /\ GuardBegin(input, options)
    /\ UNCHANGED <<redactVars, settleVars, wrapVars, ticketVars, toolVars, urlVars, requestVars, concVars>>

\* the caller has its result; the call's locals are gone, the policy object
\* and its RegExp objects remain
GuardEnd ==
    /\ gpc = "done"
    /\ gpc' = "idle"
    /\ gInput' = <<>>
    /\ gOptions' = <<>>
    /\ gViolations' = <<>>
    /\ gReasoning' = <<>>
    /\ gProviderError' = <<>>
    /\ gStartIndex' = <<>>
    /\ gClassified' = 0
    /\ gFailure' = <<>>
    /\ gErrors' = <<>>
    /\ gResult' = NoGuardResult
    /\ UNCHANGED <<gPolicy, gLastIndex, gCalls>>

GuardReturn == GuardEnd /\ UNCHANGED <<redactVars, settleVars, wrapVars, ticketVars, toolVars, urlVars, requestVars, concVars>>

\* the rest of guard once the catch block has run for err
GuardAfterFailure(err) ==
    LET caught == DeepScanCatch(gViolations, err, gOptions, gErrors)
    IN /\ gViolations' = caught.violations
       /\ gProviderError' = caught.providerError
       /\ gErrors' = caught.errors
       /\ gFailure' = <<err>>
       /\ gResult' = GuardResultOf(gInput, gPolicy, caught.violations,
                                   gReasoning, caught.providerError)
       /\ UNCHANGED gReasoning

\* classify resolves: the answer is parsed, and a 'block' is pushed
ClassifierResolved(answer) ==
    /\ gpc = "classify"
    /\ IF SchemaAccepts(answer)
       THEN LET violations == IF answer.classification = "block"
                              THEN Append(gViolations, "llm-flagged-injection")
                              ELSE gViolations
            IN /\ gReasoning' = <<answer.reasoning>>
               /\ gViolations' = violations
               /\ gResult' = GuardResultOf(gInput, gPolicy, violations,
                                           <<answer.reasoning>>, gProviderError)
               /\ UNCHANGED <<gProviderError, gFailure, gErrors>>
       ELSE GuardAfterFailure(ZodError)
    /\ gpc' = "done"
    /\ UNCHANGED <<gPolicy, gLastIndex, gCalls, gInput, gOptions, gStartIndex,
                   gClassified>>

\* classify rejects (or throws): the catch block runs
ClassifierRejected(err) ==
    /\ gpc = "classify"
    /\ GuardAfterFailure(err)
    /\ gpc' = "done"
    /\ UNCHANGED <<gPolicy, gLastIndex, gCalls, gInput, gOptions, gStartIndex,
                   gClassified>>

ClassifierResolves(answer) ==
    ClassifierResolved(answer) /\ UNCHANGED <<redactVars, settleVars, wrapVars, ticketVars, toolVars, urlVars, requestVars, concVars>>

ClassifierRejects(err) ==
    ClassifierRejected(err) /\ UNCHANGED <<redactVars, settleVars, wrapVars, ticketVars, toolVars, urlVars, requestVars, concVars>>

NextGuard ==
    \/ \E input \in GuardInputs, options \in GuardOptionsSet :
          GuardCall(input, options)
    \/ \E answer \in ClassifierAnswers : ClassifierResolves(answer)
    \/ \E err \in ClassifierErrors : ClassifierRejects(err)
    \/ GuardReturn

SpecGuard == InitGuard /\ [][NextGuard]_vars

-----------------------------------------------------------------------------
(* Callers of settlementGuard: one call per behaviour, over transactions     *)
(* that fire every combination of the heuristic rules.                       *)

ZeroAddress == <<"0", "x">> \o Repeat("0", 40)

Addresses ==
    { ZeroAddress,
      <<"0", "X">> \o Repeat("0", 40),
      <<"0", "x">> \o Repeat("0", 39),
      <<"0", "x">> \o Repeat("1", 40) }

Amounts ==
    { <<"5", "0">>,
      <<"5", "0", "0">>,
      <<"5", "0", "1">>,
      <<"5", "0", "0", ".", "5">>,
      <<"$", "1", ",", "0", "0", "0">>,
      <<"5", ".", "0", ".", "1">>,
      <<>> }

Descriptions ==
    { Repeat("x", MIN_DESCRIPTION),
      Repeat("x", MIN_DESCRIPTION - 1),
      <<" ">> \o Repeat("x", MIN_DESCRIPTION - 1) \o <<" ">>,
      <<>> }

Reputations == {0, LOW_REPUTATION - 1, LOW_REPUTATION, 90}

Transactions ==
    LET base == [amount : Amounts, currency : {"USDC"},
                 recipientAddress : Addresses,
                 serviceDescription : Descriptions]
    IN base \cup {b @@ [reputationScore |-> r] : b \in base, r \in Reputations}

SettlementOptionsSet == GuardOptionsSet

InitSettlement ==
    /\ IdleUrl
    /\ IdleRequest
    /\ IdleConcurrent
    /\ IdleTicket
    /\ IdleTool
    /\ IdleRedact
    /\ IdleGuard
    /\ IdleWrap
    /\ IdleSettlement

\* settlementGuard(meta, options) up to its return or to the await of
\* options.provider.classify(systemPrompt)
SettlementCall(meta, options) ==
    /\ spc = "idle"
    /\ sMeta = <<>>
    /\ \E h \in {heuristicAnalysis(meta)} :
          /\ sScore' = h.riskScore
          /\ sFactors' = h.riskFactors
    /\ IF FastPath(sScore')
       THEN /\ spc' = "done"
            /\ sClassified' = 0
            /\ sPrompt' = <<>>
            /\ sResult' = FastBlockResult(sScore', sFactors')
       ELSE IF DeepScanRequested(options)
       THEN /\ spc' = "classify"
            /\ sClassified' = 1
            /\ sPrompt' = <<buildSettlementPrompt(meta)>>
            /\ sResult' = NoAssessment
       ELSE /\ spc' = "done"
            /\ sClassified' = 0
            /\ sPrompt' = <<>>
            /\ sResult' = HeuristicResult(sScore', sFactors')
    /\ sMeta' = meta
    /\ sOptions' = options
    /\ UNCHANGED <<sAnswer, sFailure, sErrors, redactVars, guardVars, wrapVars, ticketVars, toolVars, urlVars, requestVars, concVars>>

\* the rest of settlementGuard once the catch block has run for err
SettlementAfterFailure(err) ==
    LET caught == SettlementCatch(sFactors, err, sOptions, sErrors)
    IN /\ sFactors' = caught.riskFactors
       /\ sErrors' = caught.errors
       /\ sFailure' = <<err>>
       /\ sResult' = HeuristicResult(sScore, caught.riskFactors)

\* classify resolves: the answer is parsed and combined with the heuristics
SettlementResolves(answer) ==
    /\ spc = "classify"
    /\ sAnswer' = <<answer>>
    /\ IF SchemaAccepts(answer)
       THEN /\ sResult' = DeepScanResult(sScore, sFactors, answer)
            /\ sFactors' = sResult'.riskFactors
            /\ UNCHANGED <<sFailure, sErrors>>
       ELSE SettlementAfterFailure(ZodError)
    /\ spc' = "done"
    /\ UNCHANGED <<sMeta, sOptions, sScore, sClassified, sPrompt, redactVars,
                   guardVars, wrapVars, ticketVars, toolVars, urlVars, requestVars, concVars>>

\* classify rejects (or throws): the catch block runs
SettlementRejects(err) ==
    /\ spc = "classify"
    /\ SettlementAfterFailure(err)
    /\ spc' = "done"
    /\ UNCHANGED <<sMeta, sOptions, sScore, sClassified, sPrompt, sAnswer,
                   redactVars, guardVars, wrapVars, ticketVars, toolVars, urlVars, requestVars, concVars>>

NextSettlement ==
    \/ \E meta \in Transactions, options \in SettlementOptionsSet :
          SettlementCall(meta, options)
    \/ \E answer \in ClassifierAnswers : SettlementResolves(answer)
    \/ \E err \in ClassifierErrors : SettlementRejects(err)

SpecSettlement == InitSettlement /\ [][NextSettlement]_vars

-----------------------------------------------------------------------------
(* Callers of wrapAgentTool: a wrapper made once, then invoked again and     *)
(* again; the classifier, the DNS lookup and the tool answer as they like.   *)

Str(chars) == [type |-> "string", value |-> chars]

UrlOf(scheme, host) == scheme \o <<":", "/", "/">> \o host

NameHost == <<"a", ".", "i", "o">>
PrivateHost == <<"1", "0", ".", "0", ".", "0", ".", "1">>
PublicHost == <<"8", ".", "8", ".", "8", ".", "8">>

WrapArguments ==
    { <<>>,
      <<Str(<<"x">>)>>,
      <<Str(<<"a", "@", "a", ".", "i", "o">>), [type |-> "number", json |-> <<"5">>]>>,
      <<Str(<<"[", "I", "N", "S", "T", "]">>)>>,
      <<Str(Repeat("{", BRACKET_LIMIT - 2))>>,
      <<Str(Repeat("{", BRACKET_LIMIT - 1))>>,
      \* { a: [1] } and a string of delimiters before an e-mail address
      <<[type |-> "object", json |-> <<"{", "\"", "a", "\"", ":", "[", "1", "]", "}">>],
        Str(Repeat("{", BRACKET_LIMIT - 7) \o <<"a", "@", "a", ".", "i", "o">>)>>,
      <<Str(<<"x", "\"", "x", "x">>)>>,
      <<Str(UrlOf(Http, NameHost))>>,
      <<Str(UrlOf(Https, Localhost) \o <<"/", "x">>)>>,
      <<Str(UrlOf(Http, PrivateHost))>>,
      <<Str(UrlOf(Http, PublicHost) \o <<"/">>), Str(UrlOf(Https, NameHost))>>,
      \* { e: { n: 'a@a.io' } }
      <<[type |-> "object",
         json |-> <<"{", "\"", "e", "\"", ":", "{", "\"", "n", "\"", ":", "\"",
                    "a", "@", "a", ".", "i", "o", "\"", "}", "}">>]>>,
      <<[type |-> "object", json |-> <<"{", "\"", "a", "\"", ":", "[", "1", "]", "}">>],
        Str(<<" ">> \o UrlOf(Http, NameHost) \o <<" ">>),
        Str(UrlOf(Http, Localhost))>> }

WrapPolicies ==
    { <<>>,
      [toolBlocklist |-> <<"deleteAll">>],
      [toolAllowlist |-> <<"search">>, toolValidator |-> "needsArguments"],
      [toolBlocklist |-> <<"deleteAll">>, toolAllowlist |-> <<>>,
       toolValidator |-> "explains"],
      [toolBlocklist |-> <<"search">>, toolValidator |-> "refuses"],
      [toolAllowlist |-> <<"search", "anonymous">>, toolValidator |-> "throws"],
      [toolValidator |-> "accepts",
       injectionPatterns |->
           << [isRegExp |-> TRUE, ignoreCase |-> FALSE, global |-> TRUE,
               atoms |-> <<Chr("x"), Chr("x")>>] >>,
       redactionPatterns |->
           << [type |-> "host", pattern |-> RegExpOf(<<Chr("i"), Chr("o")>>, FALSE)] >>] }

ToolFns == {[name |-> "deleteAll"], [name |-> "search"], [name |-> ""]}

WrapOptionsSet ==
    LET base == [policy : WrapPolicies]
        named == base \cup {b @@ [toolName |-> "search"] : b \in base}
        guarded == named \cup
            {b @@ [guardOptions |-> [deepScan |-> TRUE, provider |-> "provider",
                                     onError |-> "callback"]] : b \in named}
    IN guarded \cup {b @@ [ssrfCheck |-> FALSE] : b \in guarded}

\* what dns.lookup may resolve with
LookupResults ==
    { <<PublicHost>>, <<PrivateHost>>, <<PublicHost, PrivateHost>>, <<<<"x">>>> }

ToolValues == {"tool result"}
ToolErrors == {[layer |-> "tool", message |-> "tool failed"]}

\* the state after wrapAgentTool(toolFn, options)
InitWrap ==
    /\ IdleUrl
    /\ IdleRequest
    /\ IdleConcurrent
    /\ IdleTicket
    /\ IdleTool
    /\ IdleRedact
    /\ IdleSettlement
    /\ wToolFn \in ToolFns
    /\ wOptions \in WrapOptionsSet
    /\ wCalls = 0
    /\ NoInvocation
    /\ gPolicy = wOptions.policy
    /\ gLastIndex = [k \in 1..Len(CustomInjection(gPolicy)) |-> 0]
    /\ gCalls = 0
    /\ gInput = <<>>
    /\ gOptions = <<>>
    /\ gpc = "idle"
    /\ gViolations = <<>>
    /\ gReasoning = <<>>
    /\ gProviderError = <<>>
    /\ gStartIndex = <<>>
    /\ gClassified = 0
    /\ gFailure = <<>>
    /\ gErrors = <<>>
    /\ gResult = NoGuardResult

toolName == ToolNameOf(wToolFn, wOptions)

\* the invocation throws before it reaches the guard
ThrowsAtPolicy(error) ==
    /\ wpc' = "rejected"
    /\ wOutcome' = <<error>>
    /\ wTrace' = <<"policy">>
    /\ wSafeArgs' = <<>>
    /\ UNCHANGED <<wIndex, wInvoked, wToolArgs, guardVars>>

\* the invocation goes on from the guard's result, or from a lookup, to its
\* next await, its throw, or the call of the tool
Proceeds(next, safeArgs, guardResult) ==
    /\ wpc' = next.pc
    /\ wIndex' = next.index
    /\ wTrace' = wTrace
                    \o (IF wTrace = <<>> THEN <<"policy", "redact", "guard">> ELSE <<>>)
                    \o (IF next.layer = "ssrf" /\ ~Includes(wTrace, "ssrf")
                        THEN <<"ssrf">> ELSE <<>>)
                    \o (IF next.pc = "tool" THEN <<"tool">> ELSE <<>>)
    /\ wOutcome' = IF next.pc # "rejected" THEN <<>>
                   ELSE IF next.layer = "guard"
                   THEN <<GuardError(toolName, guardResult)>>
                   ELSE <<SsrfError(toolName, next.message)>>
    /\ wInvoked' = IF next.pc = "tool" THEN wInvoked + 1 ELSE wInvoked
    /\ wToolArgs' = IF next.pc = "tool" THEN safeArgs ELSE wToolArgs

\* the wrapped function is invoked and runs to its first await that an
\* outsider answers, to its throw, or to the call of the tool
WrapInvoke(args) ==
    /\ wpc = "idle"
    /\ wCalls < MaxCalls
    /\ wCalls' = wCalls + 1
    /\ wArgs' = args
    /\ IF ValidatorThrows(toolName, args, wOptions.policy)
       THEN ThrowsAtPolicy([layer |-> "policy", message |-> "validator failed"])
       ELSE IF PolicyBlocks(guardTool(toolName, args, wOptions.policy))
       THEN ThrowsAtPolicy(PolicyError(toolName,
                               guardTool(toolName, args, wOptions.policy)))
       ELSE /\ wSafeArgs' = SafeArgs(args, wOptions.policy)
            /\ GuardBegin(Serialised(args, wSafeArgs'), GuardOptionsOf(wOptions))
            /\ IF gpc' = "classify"
               THEN /\ wpc' = "guard"
                    /\ wTrace' = <<"policy", "redact", "guard">>
                    /\ UNCHANGED <<wIndex, wInvoked, wToolArgs, wOutcome>>
               ELSE Proceeds(AfterGuard(wSafeArgs', gResult', SsrfCheckOf(wOptions)),
                             wSafeArgs', gResult')
    /\ UNCHANGED <<wToolFn, wOptions, wLookups, redactVars, settleVars, ticketVars, toolVars, urlVars, requestVars, concVars>>

\* the classifier answers the guard of the invocation
WrapClassifierResolves(answer) ==
    /\ wpc = "guard"
    /\ ClassifierResolved(answer)
    /\ Proceeds(AfterGuard(wSafeArgs, gResult', SsrfCheckOf(wOptions)),
                wSafeArgs, gResult')
    /\ UNCHANGED <<wToolFn, wOptions, wCalls, wArgs, wSafeArgs, wLookups,
                   redactVars, settleVars, ticketVars, toolVars, urlVars, requestVars, concVars>>

WrapClassifierRejects(err) ==
    /\ wpc = "guard"
    /\ ClassifierRejected(err)
    /\ Proceeds(AfterGuard(wSafeArgs, gResult', SsrfCheckOf(wOptions)),
                wSafeArgs, gResult')
    /\ UNCHANGED <<wToolFn, wOptions, wCalls, wArgs, wSafeArgs, wLookups,
                   redactVars, settleVars, ticketVars, toolVars, urlVars, requestVars, concVars>>

\* the lookup of isPrivateIp resolves: validateUrl throws for a private
\* address among the results, else the loop goes on
WrapLookupResolves(results) ==
    /\ wpc = "lookup"
    /\ wLookups' = Append(wLookups, [index |-> wIndex, resolved |-> TRUE,
                                     private |-> SomePrivate(results)])
    /\ Proceeds(IF SomePrivate(results)
                THEN [pc |-> "rejected", index |-> wIndex, layer |-> "ssrf",
                      message |-> PrivateMessage]
                ELSE SsrfScan(wSafeArgs, wIndex + 1),
                wSafeArgs, gResult)
    /\ UNCHANGED <<wToolFn, wOptions, wCalls, wArgs, wSafeArgs, guardVars,
                   redactVars, settleVars, ticketVars, toolVars, urlVars, requestVars, concVars>>

\* the lookup fails: isPrivateIp answers true
WrapLookupFails ==
    /\ wpc = "lookup"
    /\ wLookups' = Append(wLookups, [index |-> wIndex, resolved |-> FALSE,
                                     private |-> TRUE])
    /\ Proceeds([pc |-> "rejected", index |-> wIndex, layer |-> "ssrf",
                 message |-> PrivateMessage],
                wSafeArgs, gResult)
    /\ UNCHANGED <<wToolFn, wOptions, wCalls, wArgs, wSafeArgs, guardVars,
                   redactVars, settleVars, ticketVars, toolVars, urlVars, requestVars, concVars>>

\* the tool returns a value, or a promise that resolves
WrapToolResolves(value) ==
    /\ wpc = "tool"
    /\ wpc' = "resolved"
    /\ wOutcome' = <<[layer |-> "tool", value |-> value]>>
    /\ UNCHANGED <<wToolFn, wOptions, wCalls, wArgs, wSafeArgs, wTrace, wIndex,
                   wLookups, wInvoked, wToolArgs, guardVars, redactVars,
                   settleVars, ticketVars, toolVars, urlVars, requestVars, concVars>>

\* the tool throws, or its promise rejects
WrapToolRejects(err) ==
    /\ wpc = "tool"
    /\ wpc' = "rejected"
    /\ wOutcome' = <<err>>
    /\ UNCHANGED <<wToolFn, wOptions, wCalls, wArgs, wSafeArgs, wTrace, wIndex,
                   wLookups, wInvoked, wToolArgs, guardVars, redactVars,
                   settleVars, ticketVars, toolVars, urlVars, requestVars, concVars>>

\* the caller has the outcome; the locals of the invocation and of its
\* guard call are gone
WrapReturn ==
    /\ wpc \in {"resolved", "rejected"}
    /\ wpc' = "idle"
    /\ wArgs' = <<>>
    /\ wSafeArgs' = <<>>
    /\ wTrace' = <<>>
    /\ wIndex' = 0
    /\ wLookups' = <<>>
    /\ wInvoked' = 0
    /\ wToolArgs' = <<>>
    /\ wOutcome' = <<>>
    /\ IF gpc = "done" THEN GuardEnd ELSE UNCHANGED guardVars
    /\ UNCHANGED <<wToolFn, wOptions, wCalls, redactVars, settleVars, ticketVars, toolVars, urlVars, requestVars, concVars>>

NextWrap ==
    \/ \E args \in WrapArguments : WrapInvoke(args)
    \/ \E answer \in ClassifierAnswers : WrapClassifierResolves(answer)
    \/ \E err \in ClassifierErrors : WrapClassifierRejects(err)
    \/ \E results \in LookupResults : WrapLookupResolves(results)
    \/ WrapLookupFails
    \/ \E value \in ToolValues : WrapToolResolves(value)
    \/ \E err \in ToolErrors : WrapToolRejects(err)
    \/ WrapReturn

SpecWrap == InitWrap /\ [][NextWrap]_vars

-----------------------------------------------------------------------------
(* Callers of redact: every input up to MaxLen over RedactChars, under each  *)
(* of a few policies, redacted once and then once more.                      *)

RedactChars == {"a", "@", "."}

RedactPolicies ==
    { \* {}: no field at all
      <<>>,
      \* /a@/ (no replacement) and /@+/ (not global): overlap at different starts
      [redactionPatterns |->
          << [type |-> "user", pattern |-> RegExpOf(<<Chr("a"), Chr("@")>>, TRUE)],
             [type |-> "at", pattern |-> RegExpOf(<<Plus({"@"})>>, FALSE),
              replacement |-> <<"X">>] >>],
      \* /a/ and /a+\./: the same start, different lengths
      [redactionPatterns |->
          << [type |-> "one", pattern |-> RegExpOf(<<Chr("a")>>, TRUE),
              replacement |-> <<"X">>],
             [type |-> "run", pattern |-> RegExpOf(<<Plus({"a"}), Chr(".")>>, TRUE),
              replacement |-> <<"L">>] >>],
      \* /\.a/ replaced by the empty string
      [redactionPatterns |->
          << [type |-> "dot", pattern |-> RegExpOf(<<Chr("."), Chr("a")>>, TRUE),
              replacement |-> <<>>] >>],
      \* /@*/: matches the empty string
      [redactionPatterns |->
          << [type |-> "ats", pattern |-> RegExpOf(<<Rep({"@"}, 0, -1)>>, TRUE),
              replacement |-> <<"X">>] >>],
      \* /aa/ replaced by "a"
      [redactionPatterns |->
          << [type |-> "pair", pattern |-> RegExpOf(<<Chr("a"), Chr("a")>>, TRUE),
              replacement |-> <<"a">>] >>] }

InitRedact ==
    /\ IdleUrl
    /\ IdleRequest
    /\ IdleConcurrent
    /\ IdleTicket
    /\ IdleTool
    /\ IdleGuard
    /\ IdleSettlement
    /\ IdleWrap
    /\ rInput \in Strings(RedactChars, MaxLen)
    /\ rPolicy \in RedactPolicies
    /\ rpc = "start"
    /\ rFirst = NoResult
    /\ rSecond = NoResult

\* const first = redact(input, policy)
RedactOnce ==
    /\ rpc = "start"
    /\ rFirst' = redact(rInput, rPolicy)
    /\ rpc' = "once"
    /\ UNCHANGED <<rInput, rPolicy, rSecond, guardVars, settleVars, wrapVars, ticketVars, toolVars, urlVars, requestVars, concVars>>

\* const second = redact(first.redacted, policy)
RedactAgain ==
    /\ rpc = "once"
    /\ rSecond' = redact(rFirst.redacted, rPolicy)
    /\ rpc' = "twice"
    /\ UNCHANGED <<rInput, rPolicy, rFirst, guardVars, settleVars, wrapVars, ticketVars, toolVars, urlVars, requestVars, concVars>>

NextRedact == RedactOnce \/ RedactAgain

SpecRedact == InitRedact /\ [][NextRedact]_vars


-----------------------------------------------------------------------------
(* Callers of TicketIssuer: one issuer validates; tickets come from it, from *)
(* an issuer with another key, or from elsewhere; the clock advances between *)
(* the calls.                                                                *)

\* the time the behaviours start at
StartTime == 1000
\* how often the clock advances in a behaviour
MaxTicks == 2

\* the validating issuer's configurations (TEST_CONFIG, with and without a
\* defaultValidity)
IssuerConfigs ==
    { [signingKey |-> "test-secret-key", issuer |-> "test-issuer"],
      [signingKey |-> "test-secret-key", issuer |-> "test-issuer",
       defaultValidity |-> 2] }

\* the issuer of the wrong-key test
OtherIssuer == [signingKey |-> "wrong-key", issuer |-> "test-issuer"]

\* VALID_OPTIONS and its variations in the tests, and options the schemas
\* refuse
TicketOptions ==
    LET base(level, limit, kill) ==
            [agentId |-> "agent://test-agent",
             auditLevel |-> level,
             constraints |->
                 [max_op_value |-> limit,
                  allowed_mcp_servers |-> <<"server-a", "server-b">>,
                  kill_switch_active |-> kill]]
        bases == { base("Gold", 100, kill) : kill \in BOOLEAN }
                     \cup { base("Diamond", 100, FALSE),
                            base("Gold", 0, FALSE) }
        payments ==
            bases \cup
            { [b EXCEPT !.constraints =
                   @ @@ [requires_x402_payment |-> FALSE]] : b \in bases }
    IN payments \cup
       { o @@ [validityDuration |-> d] : o \in payments, d \in {-1, 1} }

\* tickets that generateTicket did not make: one whose payload was changed
\* after it was signed, and ones signed with the validating key over a
\* payload that fails the schema
ForeignTokens(config, now) ==
    LET options(kill) ==
            [agentId |-> "agent://test-agent",
             auditLevel |-> "Gold",
             constraints |->
                 [max_op_value |-> 100,
                  allowed_mcp_servers |-> <<"server-a", "server-b">>,
                  kill_switch_active |-> kill],
             validityDuration |-> 1]
        made(kill) == generateTicket(config, options(kill), now)
        odd(kill, exp) ==
            [made(kill).payload EXCEPT !.audit_level = "Diamond",
                                       !.exp = exp]
    IN { [made(FALSE) EXCEPT !.payload.exp = now + DEFAULT_VALIDITY] }
           \cup { [payload |-> odd(kill, exp),
                   signature |-> Sign(config.signingKey, odd(kill, exp))] :
                      kill \in BOOLEAN, exp \in {now - 1, now + 1} }

\* the values, target servers and payment contexts of the transaction tests
TransactionValues == {50, 100, 200}
TargetServers == {<<>>, <<"server-a">>, <<"server-unknown">>}
PaymentContexts ==
    { [undefined |-> TRUE],
      [protocol |-> "x402", x402Proof |-> [txHash |-> "0xabc"]],
      [protocol |-> "other", x402Proof |-> [txHash |-> "0xabc"]],
      [protocol |-> "x402", x402Proof |-> [undefined |-> TRUE]] }

InitTicket ==
    /\ IdleUrl
    /\ IdleRequest
    /\ IdleConcurrent
    /\ IdleRedact
    /\ IdleGuard
    /\ IdleSettlement
    /\ IdleWrap
    /\ IdleTool
    /\ tNow = StartTime
    /\ tTicks = 0
    /\ tConfig \in IssuerConfigs
    /\ tTicket = <<>>
    /\ tSync = <<>>
    /\ tAsync = <<>>
    /\ tTx = <<>>

\* issuer.generateTicket(options), for options that pass the schemas, before
\* the clock advances: the ticket in hand is the new one, with the
\* configuration and options it was made from
Generate(config, options) ==
    /\ tTicks = 0
    /\ ~GenerateThrows(options)
    /\ tTicket' =
           <<[token |-> generateTicket(config, options, tNow),
              made |-> <<[config |-> config, options |-> options]>>]>>
    /\ tSync' = <<>>
    /\ tAsync' = <<>>
    /\ tTx' = <<>>
    /\ UNCHANGED <<tNow, tTicks, tConfig, redactVars, guardVars, settleVars,
                   wrapVars, toolVars, urlVars, requestVars, concVars>>

\* a ticket arrives that no issuer of the model generated
Receive(token) ==
    /\ tTicks = 0
    /\ tTicket' = <<[token |-> token, made |-> <<>>]>>
    /\ tSync' = <<>>
    /\ tAsync' = <<>>
    /\ tTx' = <<>>
    /\ UNCHANGED <<tNow, tTicks, tConfig, redactVars, guardVars, settleVars,
                   wrapVars, toolVars, urlVars, requestVars, concVars>>

\* the clock advances by step seconds; what was returned belongs to the
\* time before
Advance(step) ==
    /\ tTicks < MaxTicks
    /\ tNow' = tNow + step
    /\ tTicks' = tTicks + 1
    /\ tSync' = <<>>
    /\ tAsync' = <<>>
    /\ tTx' = <<>>
    /\ UNCHANGED <<tConfig, tTicket, redactVars, guardVars, settleVars,
                   wrapVars, toolVars, urlVars, requestVars, concVars>>

\* issuer.validateTicketSync(ticket)
ValidateSync ==
    /\ tTicket # <<>>
    /\ tSync' = <<validateTicketSync(tConfig, tTicket[1].token, tNow)>>
    /\ UNCHANGED <<tNow, tTicks, tConfig, tTicket, tAsync, tTx, redactVars,
                   guardVars, settleVars, wrapVars, toolVars, urlVars, requestVars, concVars>>

\* await issuer.validateTicket(ticket)
ValidateAsync ==
    /\ tTicket # <<>>
    /\ tAsync' = <<validateTicket(tConfig, tTicket[1].token, tNow)>>
    /\ UNCHANGED <<tNow, tTicks, tConfig, tTicket, tSync, tTx, redactVars,
                   guardVars, settleVars, wrapVars, toolVars, urlVars, requestVars, concVars>>

\* await issuer.validateTransaction(ticket, value, targetServer, context)
ValidateTransaction(value, targetServer, context) ==
    /\ tTicket # <<>>
    /\ tTx' = <<[value |-> value,
                 targetServer |-> targetServer,
                 context |-> context,
                 result |-> validateTransaction(tConfig, tTicket[1].token,
                                                value, targetServer, context,
                                                tNow)]>>
    /\ UNCHANGED <<tNow, tTicks, tConfig, tTicket, tSync, tAsync, redactVars,
                   guardVars, settleVars, wrapVars, toolVars, urlVars, requestVars, concVars>>

NextTicket ==
    \/ \E config \in {tConfig, OtherIssuer}, options \in TicketOptions :
           Generate(config, options)
    \/ \E token \in ForeignTokens(tConfig, tNow) : Receive(token)
    \/ \E step \in {1, DEFAULT_VALIDITY} : Advance(step)
    \/ ValidateSync
    \/ ValidateAsync
    \/ \E value \in TransactionValues, targetServer \in TargetServers,
          context \in PaymentContexts :
           ValidateTransaction(value, targetServer, context)

SpecTicket == InitTicket /\ [][NextTicket]_vars

-----------------------------------------------------------------------------
(* Callers of guardTool: calls with every tool, argument list and policy of  *)
(* the model.                                                                *)

InitTool ==
    /\ IdleUrl
    /\ IdleRequest
    /\ IdleConcurrent
    /\ IdleRedact
    /\ IdleGuard
    /\ IdleSettlement
    /\ IdleWrap
    /\ IdleTicket
    /\ qCalls = 0
    /\ qTool = ""
    /\ qArgs = <<>>
    /\ qPolicy = [undefined |-> TRUE]
    /\ qResult = <<>>

\* the tools, argument lists and policies of the calls: every combination of
\* an absent, empty or filled blocklist and allowlist with each validator,
\* and no policy at all
ToolNames == {"shell.exec", "fetchUrl", "readFile"}
ToolArguments == {<<>>, <<"http://evil.com">>}
ToolPolicies ==
    LET blocklists == { [undefined |-> TRUE] }
            \cup { [toolBlocklist |-> l] : l \in {<<>>, <<"shell.exec">>} }
        allowlists == { [undefined |-> TRUE] }
            \cup { [toolAllowlist |-> l] :
                       l \in {<<>>, <<"fetchUrl", "readFile">>} }
        validators == { [undefined |-> TRUE] }
            \cup { [toolValidator |-> v] :
                       v \in {"accepts", "refuses", "needsArguments",
                              "explains", "throws"} }
        fields(r) == [f \in DOMAIN r \ {"undefined"} |-> r[f]]
    IN { [undefined |-> TRUE] }
           \cup { fields(b) @@ fields(a) @@ fields(v) :
                      b \in blocklists, a \in allowlists, v \in validators }

\* guardTool(tool, args, policy); a call whose validator throws has no
\* result
GuardToolCall(tool, args, policy) ==
    /\ qCalls < MaxCalls
    /\ qCalls' = qCalls + 1
    /\ qTool' = tool
    /\ qArgs' = args
    /\ qPolicy' = policy
    /\ qResult' = IF ValidatorThrows(tool, args, policy) THEN <<>>
                  ELSE <<guardTool(tool, args, policy)>>
    /\ UNCHANGED <<redactVars, guardVars, settleVars, wrapVars, ticketVars, urlVars, requestVars, concVars>>

NextTool ==
    \E tool \in ToolNames, args \in ToolArguments, policy \in ToolPolicies :
        GuardToolCall(tool, args, policy)

SpecTool == InitTool /\ [][NextTool]_vars

-----------------------------------------------------------------------------
(* Callers of validateUrl: one call at a time, over URLs of each scheme and  *)
(* kind of host; the lookup resolves with addresses of either family, or     *)
(* fails.                                                                    *)

\* the hosts of the URLs: names, names and addresses of the machine itself,
\* and addresses of each range
UrlHosts ==
    { NameHost, Localhost, <<"L", "O", "C", "A", "L">>, PrivateHost, PublicHost,
      <<>>, <<"a", " ", "i", "o">>,
      <<"1", "2", "7", ".", "0", ".", "0", ".", "1">>,
      <<"1", "2", "7", ".", "1", ".", "2", ".", "3">>,
      <<"1", "7", "2", ".", "1", "6", ".", "0", ".", "1">>,
      <<"1", "9", "2", ".", "1", "6", "8", ".", "1", ".", "1">>,
      <<"1", "6", "9", ".", "2", "5", "4", ".", "1", ".", "1">>,
      <<"2", "2", "4", ".", "0", ".", "0", ".", "1">>,
      <<"0", ".", "0", ".", "0", ".", "0">>,
      <<"1", "0", "0", ".", "6", "4", ".", "0", ".", "1">>,
      <<"[", ":", ":", "1", "]">>,
      <<"[", "f", "e", "8", "0", ":", ":", "1", "]">>,
      <<"[", "f", "d", "0", "0", ":", ":", "1", "]">>,
      <<"[", "f", "f", "0", "2", ":", ":", "1", "]">>,
      <<"[", ":", ":", "f", "f", "f", "f", ":", "a", "0", "0", ":", "1", "]">>,
      <<"[", "2", "6", "0", "6", ":", ":", "1", "]">> }

\* the URLs of the calls: each host under each scheme, with and without a
\* path; text that is no URL; and a URL longer than MAX_URL_LENGTH
UrlInputs ==
    { UrlOf(scheme, host) \o path :
          scheme \in {Http, Https, File, <<"f", "t", "p">>},
          host \in UrlHosts,
          path \in {<<>>, <<"/", "x">>} }
        \cup { <<"x">>, <<" ">> \o UrlOf(Http, NameHost) \o <<" ">>,
               UrlOf(<<"H", "T", "T", "P">>, NameHost),
               UrlOf(Http, NameHost) \o [k \in 1..MAX_URL_LENGTH |-> "x"] }

\* what dns.lookup may resolve with for a URL's host
UrlLookupResults ==
    LookupResults
        \cup { << <<":", ":", "1">> >>,
               << <<"2", "6", "0", "6", ":", ":", "1">> >>,
               << PublicHost, <<"f", "e", "8", "0", ":", ":", "1">> >>,
               << <<"2", "6", "0", "6", ":", ":", "1">>,
                  <<":", ":", "f", "f", "f", "f", ":", "1", "0", ".", "0", ".",
                    "0", ".", "1">> >>,
               << <<":", ":", "f", "f", "f", "f", ":", "8", ".", "8", ".",
                    "8", ".", "8">> >>,
               << PublicHost, <<"2", "6", "0", "6", ":", ":", "1">> >>,
               << PublicHost, <<"n", "o", "n", "e">> >> }

InitUrl ==
    /\ IdleRedact
    /\ IdleGuard
    /\ IdleSettlement
    /\ IdleWrap
    /\ IdleTicket
    /\ IdleTool
    /\ IdleRequest
    /\ IdleConcurrent
    /\ uUrl = <<>>
    /\ upc = "idle"
    /\ uResults = <<>>
    /\ uOutcome = <<>>

\* validateUrl(url) up to its throw, its return, or the await of the lookup
ValidateUrlCall(url) ==
    /\ upc = "idle"
    /\ uUrl' = url
    /\ uResults' = <<>>
    /\ LET checks == validateUrlChecks(url)
           verdict == isPrivateIp(checks.hostname)
       IN IF ~checks.ok
          THEN /\ upc' = "rejected"
               /\ uOutcome' = <<checks.message>>
          ELSE IF verdict.lookup
          THEN /\ upc' = "lookup"
               /\ uOutcome' = <<>>
          ELSE IF verdict.private
          THEN /\ upc' = "rejected"
               /\ uOutcome' = <<PrivateMessage>>
          ELSE /\ upc' = "resolved"
               /\ uOutcome' = <<>>
    /\ UNCHANGED <<redactVars, guardVars, settleVars, wrapVars, ticketVars,
                   toolVars, requestVars, concVars>>

\* the lookup resolves: isPrivateIp answers whether some address is private
UrlLookupResolves(results) ==
    /\ upc = "lookup"
    /\ uResults' = <<[resolved |-> TRUE, addresses |-> results]>>
    /\ IF SomePrivate(results)
       THEN /\ upc' = "rejected"
            /\ uOutcome' = <<PrivateMessage>>
       ELSE /\ upc' = "resolved"
            /\ uOutcome' = <<>>
    /\ UNCHANGED <<uUrl, redactVars, guardVars, settleVars, wrapVars,
                   ticketVars, toolVars, requestVars, concVars>>

\* the lookup fails: isPrivateIp answers true
UrlLookupFails ==
    /\ upc = "lookup"
    /\ uResults' = <<[resolved |-> FALSE, addresses |-> <<>>]>>
    /\ upc' = "rejected"
    /\ uOutcome' = <<PrivateMessage>>
    /\ UNCHANGED <<uUrl, redactVars, guardVars, settleVars, wrapVars,
                   ticketVars, toolVars, requestVars, concVars>>

\* the caller has the outcome
UrlReturn ==
    /\ upc \in {"resolved", "rejected"}
    /\ upc' = "idle"
    /\ uUrl' = <<>>
    /\ uResults' = <<>>
    /\ uOutcome' = <<>>
    /\ UNCHANGED <<redactVars, guardVars, settleVars, wrapVars, ticketVars,
                   toolVars, requestVars, concVars>>

NextUrl ==
    \/ \E url \in UrlInputs : ValidateUrlCall(url)
    \/ \E results \in UrlLookupResults : UrlLookupResolves(results)
    \/ UrlLookupFails
    \/ UrlReturn

SpecUrl == InitUrl /\ [][NextUrl]_vars

-----------------------------------------------------------------------------
(* Callers of Agntor.request: a client with some maxRetries makes one call   *)
(* at a time; each fetch ends with a response, a network error or the abort  *)
(* of its timer, and the body of a response parses or does not.              *)

\* the largest maxRetries a configuration of the model names
MaxRetriesConfigured == 2

\* AgntorConfig: maxRetries absent, or from -1 on
RequestConfigs ==
    {<<>>} \cup {[maxRetries |-> n] : n \in (-1)..MaxRetriesConfigured}

\* the statuses a response of the model has
ResponseStatuses == {200, 204, 304, 400, 402, 404, 499, 500, 503}

\* what fetch rejects with: a network failure, or the abort of the timer
FetchErrors == {"TypeError", "AbortError"}

\* the state after new Agntor(config)
InitRequest ==
    /\ IdleRedact
    /\ IdleGuard
    /\ IdleSettlement
    /\ IdleWrap
    /\ IdleTicket
    /\ IdleTool
    /\ IdleUrl
    /\ IdleConcurrent
    /\ hMaxRetries \in {MaxRetriesOf(config) : config \in RequestConfigs}
    /\ hpc = "idle"
    /\ hAttempt = 0
    /\ hFetches = <<>>
    /\ hLastError = <<>>
    /\ hOutcome = <<>>

Resolved(data) == [resolved |-> TRUE, data |-> <<data>>, error |-> <<>>]
Thrown(err) == [resolved |-> FALSE, data |-> <<>>, error |-> <<err>>]

\* request(path, options) up to the first fetch, or to the throw behind a
\* loop that runs no attempt
RequestCall ==
    /\ hpc = "idle"
    /\ hAttempt' = 0
    /\ hFetches' = <<>>
    /\ hLastError' = <<>>
    /\ IF 0 <= hMaxRetries
       THEN /\ hpc' = "fetch"
            /\ hOutcome' = <<>>
       ELSE /\ hpc' = "rejected"
            /\ hOutcome' = <<Thrown(AgntorError("UNKNOWN", <<>>))>>
    /\ UNCHANGED <<hMaxRetries, redactVars, guardVars, settleVars, wrapVars,
                   ticketVars, toolVars, urlVars, concVars>>

\* the catch block has run
Catches(caught) ==
    /\ hpc' = caught.pc
    /\ hLastError' = caught.lastError
    /\ hOutcome' = IF caught.thrown = <<>> THEN <<>>
                   ELSE <<Thrown(caught.thrown[1])>>
    /\ UNCHANGED <<hMaxRetries, hAttempt>>

\* fetch resolves with a response: the body of a 402 or ok response is read
\* as JSON next; any other response is thrown as an API_ERROR
FetchResolves(status) ==
    /\ hpc = "fetch"
    /\ IF status = 402 \/ ResponseOk(status)
       THEN /\ hFetches' = Append(hFetches, [status |-> status, error |-> <<>>,
                                             body |-> "pending"])
            /\ hpc' = "body"
            /\ UNCHANGED <<hMaxRetries, hAttempt, hLastError, hOutcome>>
       ELSE /\ hFetches' = Append(hFetches, [status |-> status, error |-> <<>>,
                                             body |-> "text"])
            /\ Catches(Caught(AgntorError("API_ERROR", <<status>>),
                              hAttempt, hMaxRetries))
    /\ UNCHANGED <<redactVars, guardVars, settleVars, wrapVars, ticketVars,
                   toolVars, urlVars, concVars>>

\* fetch rejects
FetchRejects(name) ==
    /\ hpc = "fetch"
    /\ hFetches' = Append(hFetches, [status |-> 0, error |-> <<name>>,
                                     body |-> "none"])
    /\ Catches(Caught(OtherError(name), hAttempt, hMaxRetries))
    /\ UNCHANGED <<redactVars, guardVars, settleVars, wrapVars, ticketVars,
                   toolVars, urlVars, concVars>>

\* response.json() resolves: the data is returned
BodyResolves ==
    /\ hpc = "body"
    /\ hFetches' = [hFetches EXCEPT ![Len(hFetches)].body = "json"]
    /\ hpc' = "resolved"
    /\ hOutcome' = <<Resolved(hFetches[Len(hFetches)].status)>>
    /\ UNCHANGED <<hMaxRetries, hAttempt, hLastError, redactVars, guardVars,
                   settleVars, wrapVars, ticketVars, toolVars, urlVars, concVars>>

\* response.json() rejects: the body is no JSON text
BodyRejects ==
    /\ hpc = "body"
    /\ hFetches' = [hFetches EXCEPT ![Len(hFetches)].body = "invalid"]
    /\ Catches(Caught(OtherError("SyntaxError"), hAttempt, hMaxRetries))
    /\ UNCHANGED <<redactVars, guardVars, settleVars, wrapVars, ticketVars,
                   toolVars, urlVars, concVars>>

\* the wait before the next attempt is over: attempt++ and the next fetch
BackoffElapses ==
    /\ hpc = "wait"
    /\ hAttempt' = hAttempt + 1
    /\ hpc' = "fetch"
    /\ UNCHANGED <<hMaxRetries, hFetches, hLastError, hOutcome, redactVars,
                   guardVars, settleVars, wrapVars, ticketVars, toolVars,
                   urlVars, concVars>>

\* the caller has the outcome
RequestReturn ==
    /\ hpc \in {"resolved", "rejected"}
    /\ hpc' = "idle"
    /\ hAttempt' = 0
    /\ hFetches' = <<>>
    /\ hLastError' = <<>>
    /\ hOutcome' = <<>>
    /\ UNCHANGED <<hMaxRetries, redactVars, guardVars, settleVars, wrapVars,
                   ticketVars, toolVars, urlVars, concVars>>

FetchSettles ==
    \/ \E status \in ResponseStatuses : FetchResolves(status)
    \/ \E name \in FetchErrors : FetchRejects(name)

BodySettles == BodyResolves \/ BodyRejects

NextRequest ==
    \/ RequestCall
    \/ FetchSettles
    \/ BodySettles
    \/ BackoffElapses
    \/ RequestReturn

\* every fetch settles (its timer aborts it at the latest), the body of a
\* response is read to its end, and the timer of a wait fires
SpecRequest ==
    /\ InitRequest
    /\ [][NextRequest]_vars
    /\ WF_vars(FetchSettles)
    /\ WF_vars(BodySettles)
    /\ WF_vars(BackoffElapses)

-----------------------------------------------------------------------------
(* Concurrent invocations of one wrapped tool.  The locals of an invocation  *)
(* (args, safeArgs, the violations of its guard call, the loop index) are    *)
(* its own; the policy object, and with it the lastIndex of each RegExp in   *)
(* injectionPatterns, is the one the wrapper was made with.  An invocation   *)
(* runs from its call to its first await, and from an await's answer to the  *)
(* next; `events` lists the answers it was given.                            *)

Invocations == {1, 2}

NotInvoked ==
    [pc |-> "idle", args |-> <<>>, safeArgs |-> <<>>, start |-> <<>>,
     violations |-> <<>>, index |-> 0, events |-> <<>>, toolArgs |-> <<>>,
     outcome |-> <<>>]

\* the text the invocation hands to guard
GuardInputOf(inv) == Serialised(inv.args, inv.safeArgs)

\* the invocation throws err
InvThrows(inv, err) == [inv EXCEPT !.pc = "rejected", !.outcome = <<err>>]

\* the invocation goes on to its next await, its throw, or the tool
InvMoves(inv, next, guardResult, name) ==
    IF next.pc = "rejected"
    THEN InvThrows(inv, IF next.layer = "guard"
                        THEN GuardError(name, guardResult)
                        ELSE SsrfError(name, next.message))
    ELSE [inv EXCEPT !.pc = next.pc,
                     !.index = next.index,
                     !.toolArgs = IF next.pc = "tool" THEN inv.safeArgs ELSE <<>>]

\* guard has returned guardResult to the invocation
InvGuarded(inv, guardResult, toolFn, options) ==
    InvMoves(inv, AfterGuard(inv.safeArgs, guardResult, SsrfCheckOf(options)),
             guardResult, ToolNameOf(toolFn, options))

\* the deep scan of the invocation's guard call ended with violations,
\* reasoning and providerError
InvScanned(inv, violations, reasoning, providerError, toolFn, options) ==
    InvGuarded([inv EXCEPT !.violations = violations],
               GuardResultOf(GuardInputOf(inv), options.policy, violations,
                             reasoning, providerError),
               toolFn, options)

\* the lexical and heuristic passes of the invocation's guard call are done
InvPassesDone(inv, violations, toolFn, options) ==
    IF DeepScanRequested(GuardOptionsOf(options))
    THEN [inv EXCEPT !.pc = "guard", !.violations = violations]
    ELSE InvScanned(inv, violations, <<>>, <<>>, toolFn, options)

\* the invocation from its call to its first await, throw or tool call, and
\* the lastIndex values it leaves
InvEntersGuard(inv, lexical, toolFn, options) ==
    [inv |-> InvPassesDone(inv, HeuristicPass(GuardInputOf(inv), lexical.violations),
                           toolFn, options),
     lastIndex |-> lexical.lastIndex]

InvBegins(args, toolFn, options, lastIndex) ==
    IF ValidatorThrows(ToolNameOf(toolFn, options), args, options.policy)
    THEN [inv |-> InvThrows([NotInvoked EXCEPT !.args = args, !.start = lastIndex],
                            [layer |-> "policy", message |-> "validator failed"]),
          lastIndex |-> lastIndex]
    ELSE IF PolicyBlocks(guardTool(ToolNameOf(toolFn, options), args, options.policy))
    THEN [inv |-> InvThrows([NotInvoked EXCEPT !.args = args, !.start = lastIndex],
                            PolicyError(ToolNameOf(toolFn, options),
                                guardTool(ToolNameOf(toolFn, options), args,
                                          options.policy))),
          lastIndex |-> lastIndex]
    ELSE InvEntersGuard(
             [NotInvoked EXCEPT !.args = args,
                                !.safeArgs = SafeArgs(args, options.policy),
                                !.start = lastIndex],
             LexicalPass(Serialised(args, SafeArgs(args, options.policy)),
                         options.policy, 1, lastIndex, <<>>),
             toolFn, options)

\* what the deep scan of the invocation's guard call ends with, for the
\* classifier's answer or error
InvDeepScan(inv, event, options) ==
    IF event.kind = "answer" /\ SchemaAccepts(event.answer)
    THEN [violations |-> IF event.answer.classification = "block"
                         THEN Append(inv.violations, "llm-flagged-injection")
                         ELSE inv.violations,
          reasoning |-> <<event.answer.reasoning>>,
          providerError |-> <<>>]
    ELSE [violations |->
              DeepScanCatch(inv.violations,
                            IF event.kind = "answer" THEN ZodError ELSE event.err,
                            GuardOptionsOf(options), <<>>).violations,
          reasoning |-> <<>>,
          providerError |->
              DeepScanCatch(inv.violations,
                            IF event.kind = "answer" THEN ZodError ELSE event.err,
                            GuardOptionsOf(options), <<>>).providerError]

\* the classifier has answered or failed: guard returns, the invocation
\* goes on
InvClassified(inv, scan, toolFn, options) ==
    InvScanned(inv, scan.violations, scan.reasoning, scan.providerError,
               toolFn, options)

\* the lookup for the argument at inv.index has resolved
InvResolved(inv, results, toolFn, options) ==
    InvMoves(inv,
             IF SomePrivate(results)
             THEN [pc |-> "rejected", index |-> inv.index, layer |-> "ssrf",
                   message |-> PrivateMessage]
             ELSE SsrfScan(inv.safeArgs, inv.index + 1),
             <<>>, ToolNameOf(toolFn, options))

\* the lookup has failed
InvLookupFailed(inv, toolFn, options) ==
    InvThrows(inv, SsrfError(ToolNameOf(toolFn, options), PrivateMessage))

\* the tool has returned value
InvReturned(inv, value) ==
    [inv EXCEPT !.pc = "resolved",
                !.outcome = <<[layer |-> "tool", value |-> value]>>]

\* the invocation from the answer of an await to its next await, throw or
\* return
InvStep(inv, event, toolFn, options) ==
    IF event.kind \in {"answer", "classifierError"}
    THEN InvClassified(inv, InvDeepScan(inv, event, options), toolFn, options)
    ELSE IF event.kind = "lookup"
    THEN InvResolved(inv, event.results, toolFn, options)
    ELSE IF event.kind = "lookupFailed"
    THEN InvLookupFailed(inv, toolFn, options)
    ELSE IF event.kind = "value"
    THEN InvReturned(inv, event.value)
    ELSE InvThrows(inv, event.err)

\* the wrappers of the model: a policy with a /xx/g injection pattern or
\* none, with and without a deep scan
ConcurrentOptions ==
    {o \in WrapOptionsSet :
        /\ ~Has(o, "toolName")
        /\ ~Has(o, "ssrfCheck")
        /\ ~Has(o.policy, "toolBlocklist")
        /\ ~Has(o.policy, "toolAllowlist")}

ConcurrentArguments ==
    { <<Str(<<"x">>)>>,
      <<Str(<<"x", "\"", "x", "x">>)>>,
      <<Str(<<"a", "@", "a", ".", "i", "o">>), [type |-> "number", json |-> <<"5">>]>>,
      <<Str(UrlOf(Http, NameHost))>> }

\* the state after wrapAgentTool(toolFn, options)
InitConcurrent ==
    /\ IdleRedact
    /\ IdleGuard
    /\ IdleSettlement
    /\ IdleWrap
    /\ IdleTicket
    /\ IdleTool
    /\ IdleUrl
    /\ IdleRequest
    /\ cToolFn = [name |-> "search"]
    /\ cOptions \in ConcurrentOptions
    /\ cLastIndex = [k \in 1..Len(CustomInjection(cOptions.policy)) |-> 0]
    /\ cInv = [i \in Invocations |-> NotInvoked]

\* an await of invocation i was answered with event, and the invocation
\* went on to inv
Answered(i, event, inv) ==
    /\ cInv' = [cInv EXCEPT ![i] =
                   [inv EXCEPT !.events = Append(cInv[i].events, event)]]
    /\ UNCHANGED <<cToolFn, cOptions, cLastIndex, redactVars, guardVars,
                   settleVars, wrapVars, ticketVars, toolVars, urlVars,
                   requestVars>>

\* the wrapped function is invoked, while other invocations may be pending
ConcInvoke(i, args) ==
    /\ cInv[i].pc = "idle"
    /\ \E begun \in {InvBegins(args, cToolFn, cOptions, cLastIndex)} :
          /\ cInv' = [cInv EXCEPT ![i] = begun.inv]
          /\ cLastIndex' = begun.lastIndex
    /\ UNCHANGED <<cToolFn, cOptions, redactVars, guardVars, settleVars,
                   wrapVars, ticketVars, toolVars, urlVars, requestVars>>

ConcClassifierResolves(i, answer) ==
    /\ cInv[i].pc = "guard"
    /\ Answered(i, [kind |-> "answer", answer |-> answer],
                InvClassified(cInv[i],
                    InvDeepScan(cInv[i], [kind |-> "answer", answer |-> answer],
                                cOptions),
                    cToolFn, cOptions))

ConcClassifierRejects(i, err) ==
    /\ cInv[i].pc = "guard"
    /\ Answered(i, [kind |-> "classifierError", err |-> err],
                InvClassified(cInv[i],
                    InvDeepScan(cInv[i], [kind |-> "classifierError", err |-> err],
                                cOptions),
                    cToolFn, cOptions))

ConcLookupResolves(i, results) ==
    /\ cInv[i].pc = "lookup"
    /\ Answered(i, [kind |-> "lookup", results |-> results],
                InvResolved(cInv[i], results, cToolFn, cOptions))

ConcLookupFails(i) ==
    /\ cInv[i].pc = "lookup"
    /\ Answered(i, [kind |-> "lookupFailed"],
                InvLookupFailed(cInv[i], cToolFn, cOptions))

ConcToolResolves(i, value) ==
    /\ cInv[i].pc = "tool"
    /\ Answered(i, [kind |-> "value", value |-> value],
                InvReturned(cInv[i], value))

ConcToolRejects(i, err) ==
    /\ cInv[i].pc = "tool"
    /\ Answered(i, [kind |-> "toolError", err |-> err], InvThrows(cInv[i], err))

NextConcurrent ==
    \E i \in Invocations :
        \/ \E args \in ConcurrentArguments : ConcInvoke(i, args)
        \/ \E answer \in ClassifierAnswers : ConcClassifierResolves(i, answer)
        \/ \E err \in ClassifierErrors : ConcClassifierRejects(i, err)
        \/ \E results \in LookupResults : ConcLookupResolves(i, results)
        \/ ConcLookupFails(i)
        \/ \E value \in ToolValues : ConcToolResolves(i, value)
        \/ \E err \in ToolErrors : ConcToolRejects(i, err)

SpecConcurrent == InitConcurrent /\ [][NextConcurrent]_vars

-----------------------------------------------------------------------------
(* Properties of redact                                                      *)

\* the candidates redact collects for an input, before the sort
Candidates(input, policy) ==
    CollectMatches(input, AllRedactionPatterns(policy), 1)

SpansDisjoint(f, g) ==
    \/ f.span[2] <= g.span[1]
    \/ g.span[2] <= f.span[1]

SortedDisjoint(findings) ==
    \A i, j \in 1..Len(findings) :
        i < j => /\ findings[i].span[1] <= findings[j].span[1]
                 /\ SpansDisjoint(findings[i], findings[j])

\* C5: the findings redact returns have pairwise non-overlapping half-open
\* spans and are listed in ascending order of start offset, on the first
\* pass and on a pass over already redacted text.
C5_FindingsSortedDisjoint ==
    /\ rpc # "start" => SortedDisjoint(rFirst.findings)
    /\ rpc = "twice" => SortedDisjoint(rSecond.findings)

\* C5 witness: a call that skipped an overlapping candidate and still
\* returned several findings.
C5_Witness ==
    /\ rpc = "once"
    /\ Len(rFirst.findings) >= 2
    /\ Len(Candidates(rInput, rPolicy)) > Len(rFirst.findings)

\* some pattern of the policy (built-in or custom) matches somewhere in text
SomePatternMatches(text, policy) ==
    \E k \in 1..Len(AllRedactionPatterns(policy)) :
        HasMatch(GlobalRegex(AllRedactionPatterns(policy)[k].pattern).atoms,
                 text, 0)

\* no replacement token of the policy is matched by any of its patterns
TokensMatchNoPattern(policy) ==
    \A k \in 1..Len(AllRedactionPatterns(policy)) :
        LET p == AllRedactionPatterns(policy)[k]
        IN ~SomePatternMatches(IF Has(p, "replacement") THEN p.replacement
                               ELSE TokRedacted, policy)

GoesBefore(cs, j, k) ==
    \/ cs[j].start < cs[k].start
    \/ /\ cs[j].start = cs[k].start
       /\ cs[j].end > cs[k].end
    \/ /\ cs[j].start = cs[k].start
       /\ cs[j].end = cs[k].end
       /\ j < k

\* the candidates among `left` that do not start before the cursor
Eligible(cs, left, cursor) == {k \in left : cs[k].start >= cursor}

\* the one of a non-empty set of candidates that goes before all others
FirstOf(cs, among) ==
    CHOOSE k \in among : \A j \in among \ {k} : GoesBefore(cs, k, j)

RECURSIVE GreedyMerge(_, _, _)
GreedyFrom(cs, left, k) ==
    <<cs[k]>> \o GreedyMerge(cs, {j \in left : GoesBefore(cs, k, j)}, cs[k].end)

\* the reference merge: the candidates applied, in order, from a write
\* cursor on; `left` are the candidates not yet passed
GreedyMerge(cs, left, cursor) ==
    IF Eligible(cs, left, cursor) = {} THEN <<>>
    ELSE GreedyFrom(cs, left, FirstOf(cs, Eligible(cs, left, cursor)))

RECURSIVE Assembled(_, _, _)
\* the gaps of the input and the replacements of the first k applied
\* candidates, in order
Assembled(input, applied, k) ==
    IF k = 0 THEN <<>>
    ELSE Assembled(input, applied, k - 1)
            \o Slice(input, IF k = 1 THEN 0 ELSE applied[k - 1].end,
                     applied[k].start)
            \o applied[k].replacement

\* what the reference merge returns for the applied candidates
MergeResult(input, applied) ==
    [redacted |-> Assembled(input, applied, Len(applied))
                     \o Slice(input,
                              IF applied = <<>> THEN 0
                              ELSE applied[Len(applied)].end,
                              Len(input)),
     findings |-> [k \in 1..Len(applied) |->
                      [type |-> applied[k].type,
                       span |-> <<applied[k].start, applied[k].end>>,
                       value |-> applied[k].value]]]

ReferenceRedact(input, policy) ==
    MergeResult(input,
        GreedyMerge(Candidates(input, policy),
                    1..Len(Candidates(input, policy)), 0))

\* C27: redact equals the reference greedy merge: of all matches of all
\* patterns, by start ascending then length descending, a candidate is
\* applied exactly when its start is not before the write cursor; the text
\* is the gaps of the input, the replacements of the applied candidates and
\* the remaining suffix, in order; the findings are the applied candidates;
\* with no match the output is the input and there is no finding.
C27_ReferenceMerge ==
    /\ rpc # "start"
           => /\ rFirst = ReferenceRedact(rInput, rPolicy)
              /\ Candidates(rInput, rPolicy) = <<>>
                     => rFirst = [redacted |-> rInput, findings |-> <<>>]
    /\ rpc = "twice" => rSecond = ReferenceRedact(rFirst.redacted, rPolicy)

\* a call that left a gap before its first finding and, of two candidates
\* with the same start, applied one
C27_Witness ==
    /\ rpc = "once"
    /\ rFirst.findings # <<>>
    /\ rFirst.findings[1].span[1] > 0
    /\ \E j, k \in 1..Len(Candidates(rInput, rPolicy)) :
          /\ j # k
          /\ Candidates(rInput, rPolicy)[j].start = Candidates(rInput, rPolicy)[k].start
          /\ Candidates(rInput, rPolicy)[j].end # Candidates(rInput, rPolicy)[k].end
    /\ rFirst.redacted # rInput

\* the replacement written for a finding: that of the candidate it records
ReplacementOf(cs, finding) ==
    cs[CHOOSE k \in 1..Len(cs) :
           /\ cs[k].type = finding.type
           /\ <<cs[k].start, cs[k].end>> = finding.span].replacement

RECURSIVE OutputEnd(_, _, _)
\* the offset in the output just behind the replacement of the i-th finding
OutputEnd(cs, findings, i) ==
    IF i = 0 THEN 0
    ELSE OutputEnd(cs, findings, i - 1)
            + (findings[i].span[1]
                  - (IF i = 1 THEN 0 ELSE findings[i - 1].span[2]))
            + Len(ReplacementOf(cs, findings[i]))

\* where the input is copied from again behind the i-th finding: up to the
\* next finding, or to the end
CopiedUpTo(input, findings, i) ==
    IF i = Len(findings) THEN Len(input) ELSE findings[i + 1].span[1]

\* candidate c starts inside the i-th finding and ends behind it
Straddles(c, finding) ==
    /\ finding.span[1] < c.start
    /\ c.start < finding.span[2]
    /\ c.end > finding.span[2]

\* the overlap rules for one call: its input, candidates and result
OverlapResolved(input, cs, result) ==
    \A i \in 1..Len(result.findings) : \A k \in 1..Len(cs) :
        /\ cs[k].start = result.findings[i].span[1]
               => cs[k].end <= result.findings[i].span[2]
        /\ (result.findings[i].span[1] < cs[k].start
                /\ cs[k].start < result.findings[i].span[2])
               => \A j \in 1..Len(result.findings) :
                      result.findings[j].span[1] # cs[k].start
        /\ Straddles(cs[k], result.findings[i])
               => Slice(result.redacted,
                        OutputEnd(cs, result.findings, i),
                        OutputEnd(cs, result.findings, i)
                            + CopiedUpTo(input, result.findings, i)
                            - result.findings[i].span[2])
                  = Slice(input, result.findings[i].span[2],
                          CopiedUpTo(input, result.findings, i))

\* C28: among candidates with the same start the longest is applied; a
\* candidate that starts inside an applied match is skipped entirely, also
\* when it ends behind that match: the part of it behind the applied match
\* is copied to the output as it is and no finding records it.
C28_OverlapResolution ==
    /\ rpc # "start"
           => OverlapResolved(rInput, Candidates(rInput, rPolicy), rFirst)
    /\ rpc = "twice"
           => OverlapResolved(rFirst.redacted,
                              Candidates(rFirst.redacted, rPolicy), rSecond)

\* a call with a candidate that starts inside its only finding and ends
\* behind it
C28_Witness ==
    /\ rpc = "once"
    /\ Len(rFirst.findings) = 1
    /\ \E k \in 1..Len(Candidates(rInput, rPolicy)) :
          Straddles(Candidates(rInput, rPolicy)[k], rFirst.findings[1])

-----------------------------------------------------------------------------
(* Properties of guard                                                       *)

\* what the call in progress returns when made without options, from the
\* same lastIndex values
GuardWithoutDeepScan ==
    GuardResultOf(gInput, gPolicy,
        HeuristicPass(gInput,
            LexicalPass(gInput, gPolicy, 1, gStartIndex, <<>>).violations),
        <<>>, <<>>)

\* C3: when the classifier of a deep scan rejects or answers out of shape,
\* guard still returns; its classification and violation set are those of
\* the call without deep scan, providerError is the error's message, and
\* onError, when given, is called once with the error.
C3_GuardFailOpen ==
    gFailure # <<>>
        => /\ gpc = "done"
           /\ gResult.classification = GuardWithoutDeepScan.classification
           /\ gResult.violation_types = GuardWithoutDeepScan.violation_types
           /\ gResult.providerError = <<AsError(gFailure[1]).message>>
           /\ gErrors = IF Has(gOptions, "onError")
                        THEN <<AsError(gFailure[1])>> ELSE <<>>

\* C3 witness: a classifier failure reported to onError, on an input that
\* the lexical and heuristic passes let through.
C3_Witness ==
    /\ gpc = "done"
    /\ gFailure # <<>>
    /\ gClassified = 1
    /\ gErrors # <<>>
    /\ gResult.classification = "pass"

\* C4: in every result of guard, classification is 'block' if and only if
\* violation_types is not empty.
C4_BlockIffViolations ==
    gpc = "done"
        => (gResult.classification = "block" <=> gResult.violation_types # <<>>)

\* C4 witness: a result blocked by the classifier's verdict alone.
C4_Witness ==
    /\ gpc = "done"
    /\ gResult.classification = "block"
    /\ gResult.violation_types = <<"llm-flagged-injection">>

\* the violations the lexical and heuristic passes of the call in progress
\* push when the call is the first one made with the policy object
FirstCallViolations ==
    HeuristicPass(gInput,
        LexicalPass(gInput, gPolicy, 1,
            [k \in 1..Len(CustomInjection(gPolicy)) |-> 0], <<>>).violations)

\* what the call in progress returns when it is the first one made with the
\* policy object and the classifier answers as it did
FirstCallResult ==
    GuardResultOf(gInput, gPolicy,
        IF \E k \in 1..Len(gViolations) : gViolations[k] = "llm-flagged-injection"
        THEN Append(FirstCallViolations, "llm-flagged-injection")
        ELSE FirstCallViolations,
        gReasoning, gProviderError)

\* C23: guard is stateless across calls: whatever calls were made before
\* with the same policy object, a call returns the classification and the
\* violation set it returns as the first call with that policy, for the same
\* input and classifier answer.
C23_GuardStateless ==
    gpc = "done"
        => /\ gResult.classification = FirstCallResult.classification
           /\ gResult.violation_types = FirstCallResult.violation_types

\* the injection patterns guard tests: the built-in ones, then the policy's
InjectionPatterns(policy) ==
    DEFAULT_INJECTION_PATTERNS \o CustomInjection(policy)

\* at least one injection pattern has a match somewhere in the input
InjectionMatches(input, policy) ==
    \E k \in 1..Len(InjectionPatterns(policy)) :
        ExecEnd(InjectionRegex(InjectionPatterns(policy)[k]), input, 0) # -1

\* C25: without deep scan the violation set of guard is 'prompt-injection'
\* if and only if at least one built-in or caller-supplied pattern matches
\* the input, and 'potential-obfuscation' if and only if the input has more
\* than 20 of the characters [ ] { }, each listed once; with neither, the
\* result is 'pass' with no violation.
C25_ViolationsWithoutDeepScan ==
    (gpc = "done" /\ gClassified = 0)
        => /\ gResult.violation_types =
                  (IF InjectionMatches(gInput, gPolicy)
                   THEN <<"prompt-injection">> ELSE <<>>)
                  \o (IF BracketCount(gInput) > 20
                      THEN <<"potential-obfuscation">> ELSE <<>>)
           /\ (~InjectionMatches(gInput, gPolicy) /\ BracketCount(gInput) <= 20)
                  => gResult.classification = "pass"

\* the same, for calls that are the first made with their policy object
C25_FirstCall ==
    gCalls = 1 => C25_ViolationsWithoutDeepScan

\* what the lexical and heuristic passes of the call in progress pushed
PassesViolations ==
    HeuristicPass(gInput,
        LexicalPass(gInput, gPolicy, 1, gStartIndex, <<>>).violations)

\* the classifier is called only under deepScan with a provider, once, and
\* with the two passes done
ClassifierCalledOnRequest ==
    /\ gClassified <= 1
    /\ gClassified = 1
           => /\ Has(gOptions, "deepScan") /\ gOptions.deepScan = TRUE
              /\ Has(gOptions, "provider")
    /\ gpc = "classify" => gClassified = 1 /\ gViolations = PassesViolations

\* the step in which the classifier's well-formed answer is taken: a
\* 'block' pushes one violation, a 'pass' none, and the reasoning is attached
ValidAnswerApplied ==
    (gpc = "classify" /\ gpc' = "done" /\ gFailure' = <<>>)
        => \E answer \in ClassifierAnswers :
              /\ SchemaAccepts(answer)
              /\ gResult'.reasoning = <<answer.reasoning>>
              /\ gViolations' =
                     IF answer.classification = "block"
                     THEN Append(gViolations, "llm-flagged-injection")
                     ELSE gViolations
              /\ gResult'.violation_types = Distinct(gViolations')
              /\ \A k \in 1..Len(gViolations) :
                     \E j \in 1..Len(gResult'.violation_types) :
                         gResult'.violation_types[j] = gViolations[k]
              /\ ("llm-flagged-injection" \in
                      {gResult'.violation_types[j] :
                          j \in 1..Len(gResult'.violation_types)})
                     <=> answer.classification = "block"

\* C26: the deep-scan classifier is invoked only when options.deepScan is
\* true and a provider is given, at most once per call and after the lexical
\* and heuristic passes; a valid 'block' answer adds 'llm-flagged-injection'
\* and attaches the reasoning, a valid 'pass' answer adds no violation and
\* removes none.
C26_DeepScan ==
    /\ []ClassifierCalledOnRequest
    /\ [][ValidAnswerApplied]_vars

\* a 'pass' answer left the violation of the lexical pass in the result
C26_Witness ==
    /\ gpc = "done"
    /\ gClassified = 1
    /\ gFailure = <<>>
    /\ gResult.reasoning = <<"looks good">>
    /\ gResult.violation_types = <<"prompt-injection">>

-----------------------------------------------------------------------------
(* Properties of settlementGuard                                             *)

\* the heuristic risk score of the transaction of the call
HeuristicScore == heuristicAnalysis(sMeta).riskScore

\* what the same call returns when made without options
SettlementWithoutDeepScan ==
    LET h == heuristicAnalysis(sMeta)
    IN IF FastPath(h.riskScore)
       THEN FastBlockResult(h.riskScore, h.riskFactors)
       ELSE HeuristicResult(h.riskScore, h.riskFactors)

\* C7: whenever the heuristic risk score is at least 0.7, the call returns
\* at once with classification 'block' and riskScore equal to the heuristic
\* score, and the classifier is never invoked, whatever the options.
C7_ConclusiveHeuristicsBlock ==
    (sMeta # <<>> /\ HeuristicScore >= FAST_BLOCK_SCORE)
        => /\ spc = "done"
           /\ sResult.classification = "block"
           /\ sResult.riskScore = HeuristicScore
           /\ sClassified = 0
           /\ sPrompt = <<>>

\* C7 witness: a conclusive heuristic score in a call that asked for a deep
\* scan with a provider.
C7_Witness ==
    /\ spc = "done"
    /\ HeuristicScore >= FAST_BLOCK_SCORE
    /\ HeuristicScore < MAX_SCORE
    /\ DeepScanRequested(sOptions)
    /\ sClassified = 0

AllZeroRecipient ==
    /\ sMeta # <<>>
    /\ LowerStr(sMeta.recipientAddress) = ZeroAddress

\* C8: for a transaction whose recipient is the all-zero address, every
\* result is 'block' and has the zero-address risk factor, whatever the other
\* fields, the options, and the classifier's answer or failure.
C8_ZeroAddressBlocked ==
    (AllZeroRecipient /\ spc = "done")
        => /\ sResult.classification = "block"
           /\ \E i \in 1..Len(sResult.riskFactors) :
                 sResult.riskFactors[i] = ZeroAddressFactor

\* C8 witness: the zero address as the only risk signal, and a classifier
\* that answered 'pass'.
C8_Witness ==
    /\ AllZeroRecipient
    /\ spc = "done"
    /\ sResult.riskFactors = <<ZeroAddressFactor>>
    /\ sAnswer # <<>>
    /\ SchemaAccepts(sAnswer[1])
    /\ sAnswer[1].classification = "pass"

DeepScanAnswered ==
    /\ spc = "done"
    /\ sAnswer # <<>>
    /\ SchemaAccepts(sAnswer[1])

\* C9: with a heuristic score h below 0.7 and a well-formed answer of the
\* classifier, riskScore is min(h + 0.4, 1) for the verdict 'block' and h for
\* 'pass', classification is 'block' exactly when riskScore is at least 0.5,
\* and reasoning is the classifier's.
C9_DeepScanCombines ==
    DeepScanAnswered
        => /\ HeuristicScore < FAST_BLOCK_SCORE
           /\ DeepScanRequested(sOptions)
           /\ sResult.riskScore =
                 IF sAnswer[1].classification = "block"
                 THEN (IF HeuristicScore + LLM_BLOCK_WEIGHT < MAX_SCORE
                       THEN HeuristicScore + LLM_BLOCK_WEIGHT ELSE MAX_SCORE)
                 ELSE HeuristicScore
           /\ sResult.classification = "block"
                 <=> sResult.riskScore >= BLOCK_SCORE
           /\ sResult.reasoning.prefix = sAnswer[1].reasoning
           /\ sResult.reasoning.factors = <<>>

\* C9 witness: heuristics below 0.5 that the classifier's 'block' lifts to
\* the threshold or above.
C9_Witness ==
    /\ DeepScanAnswered
    /\ sAnswer[1].classification = "block"
    /\ HeuristicScore < BLOCK_SCORE
    /\ HeuristicScore > 0
    /\ sResult.classification = "block"

\* C10: when the classifier rejects or answers out of shape, the call still
\* returns, its result is the one of the same call without deep scan, and
\* onError, when given, is called once with the error.
C10_SettlementFailOpen ==
    sFailure # <<>>
        => /\ spc = "done"
           /\ sResult = SettlementWithoutDeepScan
           /\ sErrors = IF Has(sOptions, "onError")
                        THEN <<AsError(sFailure[1])>> ELSE <<>>

\* C10 witness: a failure reported to onError in a call whose heuristics
\* found risk factors.
C10_Witness ==
    /\ spc = "done"
    /\ sFailure # <<>>
    /\ sClassified = 1
    /\ sErrors # <<>>
    /\ sResult.riskFactors # <<>>

-----------------------------------------------------------------------------
(* Properties of wrapAgentTool                                               *)

\* the layers in their order, for a wrapper with and without the SSRF check
LayerOrder ==
    IF SsrfCheckOf(wOptions)
    THEN <<"policy", "redact", "guard", "ssrf", "tool">>
    ELSE <<"policy", "redact", "guard", "tool">>

IsPrefix(a, b) == Len(a) <= Len(b) /\ SubSeq(b, 1, Len(a)) = a

\* the tool policy check lets the invocation in progress through
PolicyPassed ==
    /\ ~ValidatorThrows(toolName, wArgs, wOptions.policy)
    /\ guardTool(toolName, wArgs, wOptions.policy).allowed

\* the guard has returned 'pass' for the invocation in progress
GuardPassed == gpc = "done" /\ gResult.classification = "pass"

\* the arguments of the invocation, every string one redacted
Sanitized ==
    [k \in 1..Len(wArgs) |->
        IF wArgs[k].type = "string"
        THEN Str(redact(wArgs[k].value, wOptions.policy).redacted)
        ELSE wArgs[k]]

\* every URL among the sanitized arguments went through validateUrl: an
\* address that is not private, or a name whose lookup gave no private one
UrlsPassed ==
    \A k \in 1..Len(Sanitized) :
        (Sanitized[k].type = "string" /\ isLikelyUrl(Sanitized[k].value))
            => LET checked == validateUrlChecks(Sanitized[k].value)
               IN /\ checked.ok
                  /\ IF isPrivateIp(checked.hostname).lookup
                     THEN \E j \in 1..Len(wLookups) :
                             /\ wLookups[j].index = k
                             /\ wLookups[j].resolved
                             /\ ~wLookups[j].private
                     ELSE ~isPrivateIp(checked.hostname).private

\* a layer has refused the invocation in progress
LayerFailed ==
    /\ wpc # "idle"
    /\ \/ ~PolicyPassed
       \/ gpc = "done" /\ gResult.classification = "block"
       \/ \E j \in 1..Len(wLookups) : wLookups[j].private
       \/ wOutcome # <<>> /\ wOutcome[1].layer \in {"policy", "guard", "ssrf"}

\* C1: in every invocation of the wrapped function the layers are entered in
\* the order policy, redaction, guard, SSRF check; the tool is called at
\* most once, after them, with the sanitized arguments and only when each
\* layer has passed; when a layer refuses, the invocation rejects and the
\* tool is not called.
C1_LayersInOrderThenTool ==
    /\ IsPrefix(wTrace, LayerOrder)
    /\ wInvoked \in {0, 1}
    /\ wInvoked = 1
          => /\ wTrace = LayerOrder
             /\ PolicyPassed
             /\ GuardPassed
             /\ SsrfCheckOf(wOptions) => UrlsPassed
             /\ wToolArgs = Sanitized
    /\ wpc \in {"tool", "resolved"} => wInvoked = 1
    /\ LayerFailed => (wpc = "rejected" /\ wInvoked = 0)

\* C1 witness: an invocation that went through redaction that changed an
\* argument, a deep scan and a DNS lookup, and whose tool returned.
C1_Witness ==
    /\ wpc = "resolved"
    /\ wInvoked = 1
    /\ wToolArgs # wArgs
    /\ gClassified = 1
    /\ wLookups # <<>>
    /\ wTrace = <<"policy", "redact", "guard", "ssrf", "tool">>

\* the tool policy check refuses the tool of the invocation in progress
BlockedByPolicy ==
    /\ wpc # "idle"
    /\ ~ValidatorThrows(toolName, wArgs, wOptions.policy)
    /\ ~guardTool(toolName, wArgs, wOptions.policy).allowed

\* C2: when the tool policy check refuses the tool name (options.toolName,
\* else the function's name), the invocation rejects in its first step with
\* the message '[Agntor] Tool "<name>" blocked: <reason>', and neither
\* redaction, nor the guard and its classifier, nor a DNS lookup, nor the
\* tool has run.
C2_BlockedToolStopsAtPolicy ==
    BlockedByPolicy
        => /\ wpc = "rejected"
           /\ wOutcome =
                 << [layer |-> "policy",
                     text |-> "[Agntor] Tool \"%s\" blocked: %s",
                     tool |-> toolName,
                     reason |-> guardTool(toolName, wArgs, wOptions.policy).reason] >>
           /\ wTrace = <<"policy">>
           /\ wSafeArgs = <<>>
           /\ gpc = "idle"
           /\ gClassified = 0
           /\ wLookups = <<>>
           /\ wInvoked = 0

\* C2 witness: a tool refused under the name of its function, for lack of
\* a declared name, and off the allowlist only, in an invocation whose
\* arguments hold a URL and whose wrapper asks for a deep scan.
C2_Witness ==
    /\ BlockedByPolicy
    /\ ~Has(wOptions, "toolName")
    /\ toolName = wToolFn.name
    /\ guardTool(toolName, wArgs, wOptions.policy).violations = <<"tool-not-allowed">>
    /\ Has(wOptions, "guardOptions")
    /\ \E k \in 1..Len(wArgs) :
          wArgs[k].type = "string" /\ isLikelyUrl(wArgs[k].value)

\* sub occurs in s
Contains(s, sub) ==
    \E i \in 0..(Len(s) - Len(sub)) : Slice(s, i, i + Len(sub)) = sub

\* the values that redaction removes from the string arguments
RemovedValues ==
    UNION { { redact(wArgs[k].value, wOptions.policy).findings[j].value :
                j \in 1..Len(redact(wArgs[k].value, wOptions.policy).findings) } :
            k \in {i \in 1..Len(wArgs) : wArgs[i].type = "string"} }

SensitiveValues(text) ==
    LET found == CollectMatches(text, AllRedactionPatterns(wOptions.policy), 1)
    IN {found[j].value : j \in 1..Len(found)}

\* C13: the tool receives an object argument with the sensitive string
\* values inside it, at any depth, replaced: no value that a redaction
\* pattern matches in the object passed occurs in the object received.
\* (The wrapped function hands a non-string argument on as it is.)
C13_ObjectsDeepRedacted ==
    wInvoked = 1
        => \A k \in 1..Len(wArgs) :
              wArgs[k].type = "object"
                  => \A value \in SensitiveValues(wArgs[k].json) :
                        ~Contains(wToolArgs[k].json, value)

\* the number of [ ] { } characters in a text
Delimiters(text) ==
    Cardinality({k \in 1..Len(text) : text[k] \in {"[", "]", "{", "}"}})

RECURSIVE ArgumentDelimiters(_)
\* the delimiters of the arguments as they are serialised: those of the
\* redacted text of a string, and of the JSON text of any other value
ArgumentDelimiters(k) ==
    IF k = 0 THEN 0
    ELSE ArgumentDelimiters(k - 1)
            + (IF wArgs[k].type = "string"
               THEN Delimiters(redact(wArgs[k].value, wOptions.policy).redacted)
               ELSE Delimiters(wArgs[k].json))

\* with the two brackets around the list
SerialisedDelimiters == 2 + ArgumentDelimiters(Len(wArgs))

\* C30: in wrapAgentTool the bracket heuristic counts the [ ] { } characters
\* of the serialization of the whole redacted argument list: the brackets
\* around the list, the structure of object and array arguments and the
\* brackets of redaction tokens included.  An invocation is rejected as
\* 'potential-obfuscation' when the total exceeds 20, also when guard on
\* each original string argument alone would pass.
C30_BracketsOfSerialisation ==
    (wpc # "idle" /\ gpc # "idle")
        => /\ BracketCount(gInput) = SerialisedDelimiters
           /\ (\E k \in 1..Len(gViolations) :
                   gViolations[k] = "potential-obfuscation")
                  <=> SerialisedDelimiters > 20
           /\ (SerialisedDelimiters > 20 /\ gpc = "done")
                  => /\ wpc = "rejected"
                     /\ wInvoked = 0
                     /\ wOutcome[1].layer = "guard"
                     /\ \E k \in 1..Len(wOutcome[1].violations) :
                            wOutcome[1].violations[k] = "potential-obfuscation"

\* an invocation rejected for its delimiters alone, with an object argument
\* and a redaction token, whose string arguments each pass guard
C30_Witness ==
    /\ wpc = "rejected"
    /\ wOutcome[1].layer = "guard"
    /\ wOutcome[1].violations = <<"potential-obfuscation">>
    /\ RemovedValues # {}
    /\ \E k \in 1..Len(wArgs) : wArgs[k].type = "object"
    /\ \A k \in 1..Len(wArgs) :
          wArgs[k].type = "string"
              => HeuristicPass(wArgs[k].value,
                     LexicalPass(wArgs[k].value, gPolicy, 1,
                         [j \in 1..Len(CustomInjection(gPolicy)) |-> 0],
                         <<>>).violations) = <<>>

-----------------------------------------------------------------------------
(* Properties of TicketIssuer                                                *)

\* the ticket in hand
Ticket == tTicket[1].token

\* what validateTicketSync and validateTicket returned for the ticket in hand
\* at the current time
Validations ==
    { tSync[k] : k \in 1..Len(tSync) } \cup { tAsync[k] : k \in 1..Len(tAsync) }

\* the four checks, each on its own
BadSignature ==
    \/ Ticket.signature.key # tConfig.signingKey
    \/ Ticket.signature.payload # Ticket.payload
BadShape == ~PayloadAccepted(Ticket.payload)
PastExpiry == tNow > Ticket.payload.exp
KillSwitched == Ticket.payload.constraints.kill_switch_active

\* the error code of the earliest failing check, "" when none fails
EarliestFailure ==
    IF BadSignature THEN "INVALID_SIGNATURE"
    ELSE IF BadShape THEN "INVALID_FORMAT"
    ELSE IF PastExpiry THEN "EXPIRED"
    ELSE IF KillSwitched THEN "KILL_SWITCH"
    ELSE ""

\* C14: validation checks signature, then shape, then expiry, then the kill
\* switch, and returns the error code of the earliest failing check: a ticket
\* signed with another key yields INVALID_SIGNATURE whether or not it is also
\* expired or kill-switched, and an expired kill-switched ticket yields
\* EXPIRED.
C14_EarliestFailureWins ==
    \A r \in Validations :
        /\ r.valid = (EarliestFailure = "")
        /\ r.errorCode = EarliestFailure
        /\ Ticket.signature.key # tConfig.signingKey
               => r.errorCode = "INVALID_SIGNATURE"
        /\ ~BadSignature /\ ~BadShape /\ PastExpiry /\ KillSwitched
               => r.errorCode = "EXPIRED"

\* an expired kill-switched ticket with a good signature was validated and
\* found expired
C14_Witness ==
    /\ tSync # <<>>
    /\ ~BadSignature /\ ~BadShape /\ PastExpiry /\ KillSwitched
    /\ tSync[1].errorCode = "EXPIRED"

\* the constraints of the ticket in hand, and the three checks of
\* validateTransaction on the last call's arguments
Constraints == Ticket.payload.constraints
ValueOver == tTx[1].value > Constraints.max_op_value
ServerUnlisted ==
    /\ tTx[1].targetServer # <<>>
    /\ \A k \in 1..Len(Constraints.allowed_mcp_servers) :
           Constraints.allowed_mcp_servers[k] # tTx[1].targetServer[1]
ProtocolNamed ==
    /\ "protocol" \in DOMAIN tTx[1].context
    /\ tTx[1].context.protocol = "x402"
ProofCarried ==
    /\ "x402Proof" \in DOMAIN tTx[1].context
    /\ "txHash" \in DOMAIN tTx[1].context.x402Proof
    /\ tTx[1].context.x402Proof.txHash # ""
PaymentMissing ==
    /\ "requires_x402_payment" \in DOMAIN Constraints
    /\ Constraints.requires_x402_payment
    /\ ~(ProtocolNamed /\ ProofCarried)

\* C15: validateTransaction accepts only if validate accepts the ticket, the
\* value is within max_op_value, the target server (when given) is allowed
\* and, when the ticket requires payment proof, the context names the
\* required protocol and carries a non-empty proof; a ticket validate rejects
\* is rejected with validate's error; and each single violation yields
\* CONSTRAINT_VIOLATION with the message about the limit, the allowed list or
\* the missing payment requirement.
C15_TransactionConstraints ==
    tTx # <<>> =>
        LET r == tTx[1].result
        IN /\ r.valid =>
                  /\ EarliestFailure = ""
                  /\ ~ValueOver /\ ~ServerUnlisted /\ ~PaymentMissing
           /\ EarliestFailure # "" =>
                  /\ ~r.valid
                  /\ r.errorCode = EarliestFailure
                  /\ r = validateTicketSync(tConfig, Ticket, tNow)
           /\ EarliestFailure = "" /\ ValueOver /\ ~ServerUnlisted
                  /\ ~PaymentMissing =>
                  /\ r.errorCode = "CONSTRAINT_VIOLATION"
                  /\ r.error = "Transaction value exceeds limit"
           /\ EarliestFailure = "" /\ ~ValueOver /\ ServerUnlisted
                  /\ ~PaymentMissing =>
                  /\ r.errorCode = "CONSTRAINT_VIOLATION"
                  /\ r.error = "Target server not in allowed list"
           /\ EarliestFailure = "" /\ ~ValueOver /\ ~ServerUnlisted
                  /\ PaymentMissing =>
                  /\ r.errorCode = "CONSTRAINT_VIOLATION"
                  /\ r.error = IF ProtocolNamed
                               THEN "Missing x402 payment proof"
                               ELSE "Transaction requires x402 payment protocol"

\* a valid ticket's transaction was refused for its value alone
C15_Witness ==
    /\ tTx # <<>>
    /\ EarliestFailure = ""
    /\ ValueOver /\ ~ServerUnlisted /\ ~PaymentMissing
    /\ tTx[1].result.errorCode = "CONSTRAINT_VIOLATION"

\* the ticket in hand was generated, by an issuer with the validating key
GeneratedWithSameKey ==
    /\ tTicket # <<>>
    /\ tTicket[1].made # <<>>
    /\ tTicket[1].made[1].config.signingKey = tConfig.signingKey

\* the options the ticket in hand was generated from, and the lifetime they
\* ask for
MadeFrom == tTicket[1].made[1].options
Requested ==
    IF "validityDuration" \in DOMAIN MadeFrom THEN MadeFrom.validityDuration
    ELSE IF "defaultValidity" \in DOMAIN tTicket[1].made[1].config
    THEN tTicket[1].made[1].config.defaultValidity
    ELSE 300

\* a generated ticket with the kill switch off and a positive lifetime that
\* has not elapsed is accepted with its payload, and one generated with
\* validityDuration -1 is rejected as EXPIRED
FreshAcceptedStaleExpired ==
    GeneratedWithSameKey =>
        \A r \in Validations :
            /\ ~MadeFrom.constraints.kill_switch_active /\ Requested > 0
                   /\ tNow <= Ticket.payload.iat + Requested
                   => r.valid /\ r.payload = <<Ticket.payload>>
            /\ Requested = -1 => ~r.valid /\ r.errorCode = "EXPIRED"

\* C16 (as stated): a generated ticket validated with the same key is valid
\* with its payload whenever its kill switch is off and its positive lifetime
\* has not elapsed; one generated with validityDuration -1 is rejected as
\* EXPIRED; and one generated with the kill switch on is rejected as
\* KILL_SWITCH.
C16_KillSwitchAlwaysReported ==
    /\ FreshAcceptedStaleExpired
    /\ GeneratedWithSameKey =>
           \A r \in Validations :
               MadeFrom.constraints.kill_switch_active
                   => ~r.valid /\ r.errorCode = "KILL_SWITCH"

\* C16 (amended): as stated, but a ticket generated with the kill switch on
\* is rejected as KILL_SWITCH only while it has not expired; once expired it
\* is rejected as EXPIRED.
C16_GenerateThenValidate ==
    /\ FreshAcceptedStaleExpired
    /\ GeneratedWithSameKey =>
           \A r \in Validations :
               MadeFrom.constraints.kill_switch_active =>
                   /\ ~r.valid
                   /\ r.errorCode = IF tNow > Ticket.payload.exp
                                    THEN "EXPIRED" ELSE "KILL_SWITCH"

\* a kill-switched ticket of the validating issuer was validated after its
\* lifetime and found expired
C16_Witness ==
    /\ GeneratedWithSameKey
    /\ MadeFrom.constraints.kill_switch_active
    /\ Requested > 0
    /\ tSync # <<>>
    /\ tSync[1].errorCode = "EXPIRED"

\* C17: every ticket generateTicket produced has exp > iat, and exp - iat is
\* the requested validity duration (300 by default).
C17_ExpiresAfterIssue ==
    tTicket # <<>> /\ tTicket[1].made # <<>> =>
        /\ Ticket.payload.exp > Ticket.payload.iat
        /\ Ticket.payload.exp - Ticket.payload.iat = Requested

-----------------------------------------------------------------------------
(* Properties of guardTool                                                   *)

\* the result of the last call and its violations
Guarded == qResult[1]
Violated(v) == \E k \in 1..Len(Guarded.violations) : Guarded.violations[k] = v

\* the last call had a policy; its tool is in the blocklist; its policy has
\* an allowlist without the tool
WithPolicy == "undefined" \notin DOMAIN qPolicy
Blocklisted ==
    /\ "toolBlocklist" \in DOMAIN qPolicy
    /\ \E k \in 1..Len(qPolicy.toolBlocklist) : qPolicy.toolBlocklist[k] = qTool
NotAllowlisted ==
    /\ "toolAllowlist" \in DOMAIN qPolicy
    /\ \A k \in 1..Len(qPolicy.toolAllowlist) : qPolicy.toolAllowlist[k] # qTool

\* C19: with no policy guardTool allows; with a policy the tool is refused
\* with 'tool-blocked' whenever it is in the blocklist and with
\* 'tool-not-allowed' whenever an allowlist is present and does not contain
\* it (both when both apply); a tool in neither situation, with no
\* validator, is allowed.
C19_ListsEvaluatedIndependently ==
    qResult # <<>> =>
        /\ ~WithPolicy => Guarded.allowed
        /\ WithPolicy /\ Blocklisted =>
               ~Guarded.allowed /\ Violated("tool-blocked")
        /\ WithPolicy /\ NotAllowlisted =>
               ~Guarded.allowed /\ Violated("tool-not-allowed")
        /\ WithPolicy /\ ~Blocklisted /\ ~NotAllowlisted
               /\ "toolValidator" \notin DOMAIN qPolicy => Guarded.allowed

\* what the validator of the last call returned
Validation == ValidatorResult(qPolicy.toolValidator, qTool, qArgs)

\* C20: a string from the validator blocks at once, with that string as the
\* reason; false adds 'tool-validation-failed', and the reason is then the
\* blocked-by-policy message when 'tool-blocked' fired too and the generic
\* message otherwise; true adds no violation.
C20_ValidatorResults ==
    qResult # <<>> /\ WithPolicy /\ "toolValidator" \in DOMAIN qPolicy =>
        /\ Validation.type = "string" =>
               Guarded = [allowed |-> FALSE,
                          violations |-> <<"tool-validation-failed">>,
                          reason |-> [text |-> Validation.text]]
        /\ Validation.type = "boolean" /\ ~Validation.value =>
               /\ ~Guarded.allowed
               /\ Violated("tool-validation-failed")
               /\ Guarded.reason =
                      [text |-> IF Violated("tool-blocked")
                                THEN "Tool '%s' is explicitly blocked by policy."
                                ELSE "Tool '%s' failed security policy validation.",
                       tool |-> qTool]
        /\ Validation.type = "boolean" /\ Validation.value =>
               ~Violated("tool-validation-failed")

\* a blocklisted tool's validator returned a string, which is the reason
C20_Witness ==
    /\ qResult # <<>>
    /\ WithPolicy
    /\ Blocklisted
    /\ "toolValidator" \in DOMAIN qPolicy
    /\ Validation.type = "string"
    /\ Guarded.reason = [text |-> Validation.text]

-----------------------------------------------------------------------------
(* Properties of validateUrl                                                 *)

\* the host of the call's URL, without brackets
UrlHost == StripBrackets(ParseUrl(uUrl).hostname)

\* the lookup of the call failed, or resolved with an address that does not
\* parse
Unresolved ==
    /\ uResults # <<>>
    /\ \/ ~uResults[1].resolved
       \/ \E k \in 1..Len(uResults[1].addresses) :
              /\ ~ParseIpv4(uResults[1].addresses[k]).valid
              /\ ~ParseIpv6(uResults[1].addresses[k]).valid

\* C21: validateUrl is fail-closed: when the lookup of the hostname fails, or
\* an address it resolved to does not parse, the call rejects the URL as
\* private; a URL is accepted only when its host is an address itself or
\* the lookup resolved with addresses that all parse.
C21_FailClosed ==
    /\ Unresolved => upc = "rejected" /\ uOutcome = <<PrivateMessage>>
    /\ upc = "resolved" =>
           IF uResults = <<>>
           THEN ParseIpv4(UrlHost).valid \/ ParseIpv6(UrlHost).valid
           ELSE ~Unresolved

\* a lookup failed and the URL was rejected
C21_Witness ==
    /\ upc = "rejected"
    /\ uResults # <<>>
    /\ ~uResults[1].resolved
    /\ uOutcome = <<PrivateMessage>>

\* an IPv4 address in a private, loopback, link-local or multicast range
BlockedOctets(o) ==
    \/ o[1] = 10
    \/ o[1] = 172 /\ o[2] \in 16..31
    \/ o[1] = 192 /\ o[2] = 168
    \/ o[1] = 127
    \/ o[1] = 169 /\ o[2] = 254
    \/ o[1] \in 224..239

\* an IPv6 address that is ::1, in fc00::/7, fe80::/10 or ff00::/8, or that
\* maps an IPv4 address of a blocked range
BlockedGroups(g) ==
    \/ g = <<0, 0, 0, 0, 0, 0, 0, 1>>
    \/ g[1] \in 64512..65023
    \/ g[1] \in 65152..65215
    \/ g[1] \in 65280..65535
    \/ /\ SubSeq(g, 1, 6) = <<0, 0, 0, 0, 0, 65535>>
       /\ BlockedOctets(<<g[7] \div 256, g[7] % 256, g[8] \div 256, g[8] % 256>>)

\* the address is in a blocked range of its family
BlockedAddress(ip) ==
    \/ ParseIpv4(ip).valid /\ BlockedOctets(ParseIpv4(ip).octets)
    \/ ParseIpv6(ip).valid /\ BlockedGroups(ParseIpv6(ip).groups)

\* the addresses the host of the call's URL denotes: itself, or what the
\* lookup resolved with
Denoted ==
    IF uResults = <<>> THEN {UrlHost}
    ELSE { uResults[1].addresses[k] : k \in 1..Len(uResults[1].addresses) }

\* C22: validateUrl accepts a URL only if it has at most 2048 characters,
\* parses, has scheme http or https and a non-empty hostname that is no
\* localhost or loopback literal, and none of the addresses the hostname
\* denotes is private, loopback, link-local or multicast; one such address
\* among several resolved ones rejects.
C22_AcceptsOnlySafeUrls ==
    /\ upc = "resolved" =>
           /\ Len(uUrl) <= 2048
           /\ ParseUrl(uUrl).valid
           /\ ParseUrl(uUrl).protocol \in {Http, Https}
           /\ ParseUrl(uUrl).hostname # <<>>
           /\ UrlHost \notin
                  { Localhost, <<"l", "o", "c", "a", "l">>,
                    <<"1", "2", "7", ".", "0", ".", "0", ".", "1">>,
                    <<":", ":", "1">> }
           /\ \A ip \in Denoted : ~BlockedAddress(ip)
    /\ uResults # <<>> /\ (\E ip \in Denoted : BlockedAddress(ip))
           => upc = "rejected"

\* a URL was accepted whose host resolved to several addresses
C22_Witness ==
    /\ upc = "resolved"
    /\ uResults # <<>>
    /\ Len(uResults[1].addresses) > 1

-----------------------------------------------------------------------------
(* Properties of Agntor.request                                              *)

\* the fetch calls of the call in progress
FetchCalls == Len(hFetches) + (IF hpc = "fetch" THEN 1 ELSE 0)

\* the attempt ended with the abort of its timer
Aborted(e) == e.error = <<"AbortError">>

\* the attempt ended with a 4xx response other than 402
ClientErrorResponse(e) ==
    e.error = <<>> /\ e.status \in 400..499 /\ e.status # 402

\* the attempt ended with a 402 or a successful response
DataResponse(e) ==
    e.error = <<>> /\ (e.status = 402 \/ e.status \in 200..299)

\* the error the attempt ended with
ErrorOf(e) ==
    IF e.error # <<>> THEN OtherError(e.error[1])
    ELSE IF e.body = "invalid" THEN OtherError("SyntaxError")
    ELSE AgntorError("API_ERROR", <<e.status>>)

\* what holds behind an attempt that is settled: one that is not retried has
\* ended the call, with the data or with its error; one that is retried is
\* followed by the next attempt, or, as the last one allowed, by its error
AttemptRule(e, retried) ==
    IF retried
    THEN IF Len(hFetches) < hMaxRetries + 1
         THEN hpc \in {"wait", "fetch"} /\ hOutcome = <<>>
         ELSE hpc = "rejected" /\ hOutcome = <<Thrown(ErrorOf(e))>>
    ELSE IF DataResponse(e)
         THEN hpc = "resolved" /\ hOutcome = <<Resolved(e.status)>>
    ELSE IF Aborted(e)
         THEN hpc = "rejected"
              /\ hOutcome = <<Thrown(AgntorError("TIMEOUT", <<>>))>>
    ELSE hpc = "rejected"
         /\ hOutcome = <<Thrown(AgntorError("API_ERROR", <<e.status>>))>>

\* as claimed, every failure is retried but a 4xx response and an abort, and
\* every 402 or successful response ends the call
RetriedAsClaimed(e) ==
    ~Aborted(e) /\ ~ClientErrorResponse(e) /\ ~DataResponse(e)

\* in the code a 402 or successful response whose body is no JSON text is
\* retried too
RetriedInCode(e) == RetriedAsClaimed(e) \/ e.body = "invalid"

\* at most maxRetries + 1 fetch calls, none behind an attempt that was not to
\* be retried
AttemptsBounded ==
    /\ FetchCalls <= hMaxRetries + 1
    /\ (hpc = "rejected" /\ hFetches = <<>>)
           => hOutcome = <<Thrown(AgntorError("UNKNOWN", <<>>))>>

RetriesOfRequest ==
    /\ AttemptsBounded
    /\ \A k \in 1..(Len(hFetches) - 1) : RetriedInCode(hFetches[k])
    /\ (hFetches # <<>> /\ hpc # "body")
           => AttemptRule(hFetches[Len(hFetches)],
                          RetriedInCode(hFetches[Len(hFetches)]))

-----------------------------------------------------------------------------
(* Properties of concurrent invocations                                      *)

RECURSIVE RunFrom(_, _, _)
\* the invocation inv given the events from the k-th on, one after another
RunFrom(inv, events, k) ==
    IF k > Len(events) THEN inv
    ELSE RunFrom(InvStep(inv, events[k], cToolFn, cOptions), events, k + 1)

\* the invocation of the wrapper with args, given the events, when the
\* RegExp objects of the policy have the lastIndex values given
RunAlone(args, events, lastIndex) ==
    RunFrom(InvBegins(args, cToolFn, cOptions, lastIndex).inv, events, 1)

\* how an invocation ended: the rejection and its reason, or the arguments
\* passed to the tool and the value returned
OutcomeOf(inv) ==
    [pc |-> inv.pc, outcome |-> inv.outcome, toolArgs |-> inv.toolArgs]

Ended(i) == cInv[i].pc \in {"resolved", "rejected"}

\* C24: concurrent invocations of a wrapped tool are independent: however
\* their awaits interleave, each invocation ends as it ends when it runs
\* alone (with the same answers of the classifier, the lookup and the tool).
C24_ConcurrentIndependent ==
    \A i \in Invocations :
        Ended(i)
            => OutcomeOf(cInv[i])
                   = OutcomeOf(RunAlone(cInv[i].args, cInv[i].events,
                          [k \in 1..Len(CustomInjection(cOptions.policy)) |-> 0]))

\* the same, compared with the run alone from the lastIndex values that the
\* invocation found when it was called
C24_IndependentOfInterleaving ==
    \A i \in Invocations :
        Ended(i)
            => OutcomeOf(cInv[i])
                   = OutcomeOf(RunAlone(cInv[i].args, cInv[i].events,
                                        cInv[i].start))

====
